---------------------------- MODULE Spec2Model ----------------------------
(***************************************************************************)
(* The Tracking Engine of the satellite tracker: SatelliteTracker of       *)
(* src/satellite_tracker.py, driven by the routes of src/routes.py.        *)
(*                                                                         *)
(* A dict is a sequence of records in insertion order (Python dicts keep   *)
(* it), a text line is a record of what the code reads from it, and every  *)
(* thread that runs a method of the tracker has its own locals.            *)
(***************************************************************************)
EXTENDS Integers, Sequences, FiniteSets, TLC

----------------------------------------------------------------------------
(* Bounds of the model *)

\* Ceiling on the records of one ingestion. The code's literal is 2000
\* (lines 192, 199, 211); the model runs it at a size where bodies of two or
\* three records reach it.
SatelliteLimit == 2

\* Endpoints in every source set (the code has 25, 3 and 3).
UrlsPerSet == 2

\* How often the clock advances in one run.
MaxTicks == 2

\* how many pieces an event sequence of find_events is put together from
MaxPieces == 4

----------------------------------------------------------------------------
(* Program constants *)

\* len(tle_source_sets)
NumSourceSets == 3

\* self.update_interval, in seconds
update_interval == 86400

\* len(line1) == 69 and len(line2) == 69
TleLineLength == 69

\* the catalog id of the built-in record
FallbackNoradId == 25544

\* self.last_update = None
None == -1

\* int(line1[2:7]) raises ValueError
NoInt == -1

\* float(tle_line2[52:63]) raises ValueError
NoFloat == -999

\* a key that a dict does not have
Absent == -2

\* the events of find_events: event == 0, event == 1, event == 2
Rise == 0
Culmination == 1
SetEvent == 2

\* passes[:3]
PassLimit == 3

\* num_points = 100
num_points == 100

\* what subpoint.elevation holds when the propagation gave no position:
\* every comparison with it is false
NaN == -888888888

Threads == {"main", "worker"}

----------------------------------------------------------------------------
(* The taxonomy: the keys of _define_categories, in the dict's order *)

CategoryOrder ==
    <<"ISS", "GPS", "GLONASS", "Galileo",
      "BeiDou", "Weather", "Earth_Observation", "Communication",
      "Starlink", "OneWeb", "Iridium", "Scientific",
      "Space_Telescopes", "Military", "CubeSats", "Amateur_Radio",
      "Technology_Demo", "Debris_Tracking", "Geostationary", "LEO_Constellation",
      "Commercial", "Rocket_Bodies", "Other">>

CategoryKeys == {CategoryOrder[i] : i \in DOMAIN CategoryOrder}

\* the 'name' and the 'color' of every key of _define_categories
CategoryTable ==
    <<
      <<"ISS", "International Space Station", "#FF6B6B">>,
      <<"GPS", "GPS Constellation", "#4ECDC4">>,
      <<"GLONASS", "GLONASS Navigation", "#FF8C42">>,
      <<"Galileo", "Galileo Navigation", "#6A4C93">>,
      <<"BeiDou", "BeiDou Navigation", "#F25C54">>,
      <<"Weather", "Weather Satellites", "#45B7D1">>,
      <<"Earth_Observation", "Earth Observation", "#52B788">>,
      <<"Communication", "Communication Satellites", "#96CEB4">>,
      <<"Starlink", "Starlink Constellation", "#E9C46A">>,
      <<"OneWeb", "OneWeb Constellation", "#F4A261">>,
      <<"Iridium", "Iridium Constellation", "#E76F51">>,
      <<"Scientific", "Scientific Satellites", "#FFEAA7">>,
      <<"Space_Telescopes", "Space Telescopes", "#264653">>,
      <<"Military", "Military Satellites", "#DDA0DD">>,
      <<"CubeSats", "CubeSats", "#F72585">>,
      <<"Amateur_Radio", "Amateur Radio", "#4CC9F0">>,
      <<"Technology_Demo", "Technology Demo", "#7209B7">>,
      <<"Debris_Tracking", "Debris & Tracking", "#A44A3F">>,
      <<"Geostationary", "Geostationary Orbit", "#F77F00">>,
      <<"LEO_Constellation", "LEO Constellations", "#FCBF49">>,
      <<"Commercial", "Commercial Satellites", "#FFB347">>,
      <<"Rocket_Bodies", "Rocket Bodies", "#8B5A3C">>,
      <<"Other", "Other Satellites", "#A8A8A8">>
    >>

CategoryDisplay ==
    [c \in CategoryKeys |->
        LET row == CategoryTable[CHOOSE i \in DOMAIN CategoryTable :
                                     CategoryTable[i][1] = c]
        IN  [name |-> row[2], color |-> row[3]]]

\* every category starts with 'satellites': []
EmptyCategories == [c \in CategoryKeys |-> <<>>]

----------------------------------------------------------------------------
(* Text: a name is the sequence of its characters *)

UpperCase == <<"A","B","C","D","E","F","G","H","I","J","K","L","M",
               "N","O","P","Q","R","S","T","U","V","W","X","Y","Z">>
LowerCase == <<"a","b","c","d","e","f","g","h","i","j","k","l","m",
               "n","o","p","q","r","s","t","u","v","w","x","y","z">>

\* str.lower() on one character
LowerChar(c) ==
    IF \E i \in DOMAIN UpperCase : UpperCase[i] = c
    THEN LowerCase[CHOOSE i \in DOMAIN UpperCase : UpperCase[i] = c]
    ELSE c

\* mutant: the name is matched as it is written
Lower_Identity(s) == s

\* name.lower()
Lower(s) == [i \in DOMAIN s |-> LowerChar(s[i])]

\* mutant: == for in
Has_Equal(kw, s) == s = kw

\* kw in s
Has(kw, s) ==
    \E i \in 1..(Len(s) - Len(kw) + 1) : SubSeq(s, i, i + Len(kw) - 1) = kw

\* _categorize_satellite(name, norad_id)
CategorizeSatellite(name, norad_id) ==
    LET name_lower == Lower(name) IN
    IF norad_id = 25544
    \/ Has(<<"i","s","s">>, name_lower)
    THEN "ISS"
    ELSE IF Has(<<"g","p","s">>, name_lower)
         \/ Has(<<"n","a","v","s","t","a","r">>, name_lower)
    THEN "GPS"
    ELSE IF Has(<<"g","l","o","n","a","s","s">>, name_lower)
    THEN "GLONASS"
    ELSE IF Has(<<"g","a","l","i","l","e","o">>, name_lower)
    THEN "Galileo"
    ELSE IF Has(<<"b","e","i","d","o","u">>, name_lower)
         \/ Has(<<"c","o","m","p","a","s","s">>, name_lower)
    THEN "BeiDou"
    ELSE IF Has(<<"s","t","a","r","l","i","n","k">>, name_lower)
    THEN "Starlink"
    ELSE IF Has(<<"o","n","e","w","e","b">>, name_lower)
    THEN "OneWeb"
    ELSE IF Has(<<"i","r","i","d","i","u","m">>, name_lower)
    THEN "Iridium"
    ELSE IF Has(<<"n","o","a","a">>, name_lower)
         \/ Has(<<"g","o","e","s">>, name_lower)
         \/ Has(<<"m","e","t","e","o","s","a","t">>, name_lower)
         \/ Has(<<"w","e","a","t","h","e","r">>, name_lower)
         \/ Has(<<"m","e","t","o","p">>, name_lower)
         \/ Has(<<"h","i","m","a","w","a","r","i">>, name_lower)
    THEN "Weather"
    ELSE IF Has(<<"l","a","n","d","s","a","t">>, name_lower)
         \/ Has(<<"s","e","n","t","i","n","e","l">>, name_lower)
         \/ Has(<<"t","e","r","r","a">>, name_lower)
         \/ Has(<<"a","q","u","a">>, name_lower)
         \/ Has(<<"m","o","d","i","s">>, name_lower)
         \/ Has(<<"w","o","r","l","d","v","i","e","w">>, name_lower)
    THEN "Earth_Observation"
    ELSE IF Has(<<"h","u","b","b","l","e">>, name_lower)
         \/ Has(<<"k","e","p","l","e","r">>, name_lower)
         \/ Has(<<"t","e","s","s">>, name_lower)
         \/ Has(<<"c","h","a","n","d","r","a">>, name_lower)
         \/ Has(<<"s","p","i","t","z","e","r">>, name_lower)
         \/ Has(<<"j","w","s","t">>, name_lower)
         \/ Has(<<"t","e","l","e","s","c","o","p","e">>, name_lower)
         \/ Has(<<"o","b","s","e","r","v","a","t","o","r","y">>, name_lower)
    THEN "Space_Telescopes"
    ELSE IF Has(<<"s","c","i","e","n","c","e">>, name_lower)
         \/ Has(<<"r","e","s","e","a","r","c","h">>, name_lower)
         \/ Has(<<"e","x","p","l","o","r","e","r">>, name_lower)
         \/ Has(<<"m","i","s","s","i","o","n">>, name_lower)
         \/ Has(<<"e","x","p","e","r","i","m","e","n","t">>, name_lower)
    THEN "Scientific"
    ELSE IF Has(<<"c","u","b","e","s","a","t">>, name_lower)
         \/ Has(<<"c","u","b","e">>, name_lower)
         \/ Has(<<"p","i","c","o","s","a","t","e","l","l","i","t","e">>, name_lower)
         \/ Has(<<"n","a","n","o","s","a","t">>, name_lower)
         \/ Has(<<"m","i","c","r","o","s","a","t">>, name_lower)
    THEN "CubeSats"
    ELSE IF Has(<<"a","m","a","t","e","u","r">>, name_lower)
         \/ Has(<<"h","a","m">>, name_lower)
         \/ (Has(<<"r","a","d","i","o">>, name_lower) /\ Has(<<"s","a","t">>, name_lower))
    THEN "Amateur_Radio"
    ELSE IF Has(<<"d","e","m","o">>, name_lower)
         \/ Has(<<"t","e","s","t">>, name_lower)
         \/ Has(<<"t","e","c","h","n","o","l","o","g","y">>, name_lower)
         \/ Has(<<"e","x","p","e","r","i","m","e","n","t","a","l">>, name_lower)
    THEN "Technology_Demo"
    ELSE IF Has(<<"u","s","a">>, name_lower)
         \/ Has(<<"n","r","o">>, name_lower)
         \/ Has(<<"d","s","c","s">>, name_lower)
         \/ Has(<<"m","i","l","s","t","a","r">>, name_lower)
         \/ Has(<<"s","b","i","r","s">>, name_lower)
         \/ Has(<<"l","a","c","r","o","s","s","e">>, name_lower)
    THEN "Military"
    ELSE IF Has(<<"r","o","c","k","e","t">>, name_lower)
         \/ Has(<<"r","/","b">>, name_lower)
         \/ Has(<<"d","e","b","r","i","s">>, name_lower)
         \/ Has(<<"s","t","a","g","e">>, name_lower)
    THEN "Rocket_Bodies"
    ELSE IF Has(<<"i","n","t","e","l","s","a","t">>, name_lower)
         \/ Has(<<"e","u","t","e","l","s","a","t">>, name_lower)
         \/ Has(<<"s","e","s">>, name_lower)
         \/ Has(<<"c","o","m","m","u","n","i","c","a","t","i","o","n">>, name_lower)
         \/ Has(<<"t","e","l","e","c","o","m">>, name_lower)
         \/ Has(<<"b","r","o","a","d","c","a","s","t">>, name_lower)
    THEN "Communication"
    ELSE IF Has(<<"g","e","o">>, name_lower)
         \/ Has(<<"g","e","o","s","t","a","t","i","o","n","a","r","y">>, name_lower)
    THEN "Geostationary"
    ELSE "Other"

----------------------------------------------------------------------------
(* Lines of a response body, after strip().  mark is the first two          *)
(* characters, len the length, norad what int(line[2:7]) gives (NoInt when  *)
(* it raises), sgp4 whether EarthSatellite accepts the line, rev the rest   *)
(* of the line's columns.                                                   *)

(* Of an element line, mean_motion is what float(line[52:63]) gives, in    *)
(* revolutions per day (NoFloat when it raises), and propagates whether    *)
(* the satellite built from the line has a position at the time asked.     *)

\* columns 19-32 of a line: the two characters of the year and the day of
\* the year, counted in half days (NoFloat when float() raises on them)
Epoch(yy, day) == [yy |-> yy, day |-> day]

\* "23001.00000000", the epoch of iss_tle1
iss_epoch == Epoch(<<"2", "3">>, 2)

NameLine(n) ==
    [text |-> n, mark |-> "na", len |-> Len(n), norad |-> NoInt,
     sgp4 |-> FALSE, rev |-> 0, mean_motion |-> NoFloat, propagates |-> FALSE,
     epoch |-> Epoch(<<"X", "X">>, NoFloat)]

TleLine(m, id, r) ==
    [text |-> <<>>, mark |-> m, len |-> TleLineLength, norad |-> id,
     sgp4 |-> TRUE, rev |-> r, mean_motion |-> 15, propagates |-> TRUE,
     epoch |-> iss_epoch]

\* ''.split('\n') == ['']
EmptyLine == NameLine(<<>>)

ISS_NAME      == <<"I","S","S"," ","(","Z","A","R","Y","A",")">>
STARLINK_NAME == <<"S","T","A","R","L","I","N","K","-","1","0","0","7">>
UNKNOWN_NAME  == <<"U","N","K","N","O","W","N","S","A","T","-","1">>
GPS_NAME      == <<"G","P","S"," ","B","I","I","R","-","2">>

\* iss_tle1, iss_tle2 of _load_fallback_data
iss_tle1 == TleLine("1 ", FallbackNoradId, 0)
iss_tle2 == TleLine("2 ", FallbackNoradId, 0)

Triplet(n, id, r) == <<NameLine(n), TleLine("1 ", id, r), TleLine("2 ", id, r)>>

T_ISS      == Triplet(ISS_NAME, 25544, 1)
T_STARLINK == Triplet(STARLINK_NAME, 44713, 1)
T_UNKNOWN  == Triplet(UNKNOWN_NAME, 99999, 1)
\* the id of T_STARLINK again, under another name and with other elements
T_DUP      == Triplet(GPS_NAME, 44713, 2)
\* line 1 one character short
T_SHORT    == <<NameLine(UNKNOWN_NAME),
                [TleLine("1 ", 99999, 3) EXCEPT !.len = TleLineLength - 1],
                TleLine("2 ", 99999, 3)>>
\* line 2 does not start with "2 "
T_MARK     == <<NameLine(UNKNOWN_NAME),
                TleLine("1 ", 99999, 4), TleLine("3 ", 99999, 4)>>
\* well-formed lines that EarthSatellite rejects
T_REJECTED == <<NameLine(UNKNOWN_NAME),
                TleLine("1 ", 99999, 5),
                [TleLine("2 ", 99999, 5) EXCEPT !.sgp4 = FALSE]>>
\* well-formed lines whose columns 2..6 are no integer
T_NOID     == <<NameLine(UNKNOWN_NAME),
                TleLine("1 ", NoInt, 6), TleLine("2 ", NoInt, 6)>>
\* lines that EarthSatellite accepts and whose columns 52..62 are no number
T_CORRUPT  == <<NameLine(GPS_NAME),
                TleLine("1 ", 20001, 7),
                [TleLine("2 ", 20001, 7) EXCEPT !.mean_motion = NoFloat]>>
\* elements for which the propagation raises
T_DECAYED  == <<NameLine(UNKNOWN_NAME),
                TleLine("1 ", 20002, 8),
                [TleLine("2 ", 20002, 8) EXCEPT !.propagates = FALSE]>>

\* response.text.strip().split('\n') of the bodies the endpoints serve
Bodies ==
    { T_ISS \o T_STARLINK,
      T_CORRUPT \o T_ISS \o T_DECAYED,
      T_DECAYED \o T_STARLINK,
      T_DUP \o T_UNKNOWN,
      T_SHORT \o T_UNKNOWN,
      T_MARK \o T_REJECTED \o T_NOID,
      T_ISS \o T_STARLINK \o T_UNKNOWN,
      \* a leading line shifts every record
      <<NameLine(UNKNOWN_NAME)>> \o T_ISS,
      \* the body ends inside a record
      T_STARLINK \o <<NameLine(UNKNOWN_NAME), TleLine("1 ", 99999, 1)>>,
      <<EmptyLine>> }

\* requests.get(url, timeout=15) followed by raise_for_status(): a body, or
\* an exception
Responses ==
    {[raised |-> FALSE, lines |-> b] : b \in Bodies}
      \cup {[raised |-> TRUE, lines |-> <<>>]}

----------------------------------------------------------------------------
(* Dicts keyed by catalog id *)

Keys(d) == {d[i].norad_id : i \in DOMAIN d}

\* d[id]
Get(d, id) == d[CHOOSE i \in DOMAIN d : d[i].norad_id = id]

----------------------------------------------------------------------------
(* Parsing one response body: lines 206-244 of load_tle_data *)

\* mutant: the length of line 1 is not checked
ValidTleFormat_NoLength(line1, line2) ==
    /\ line1.mark = "1 "
    /\ line2.mark = "2 "
    /\ line2.len = TleLineLength

\* line1.startswith('1 ') and line2.startswith('2 ') and
\* len(line1) == 69 and len(line2) == 69
ValidTleFormat(line1, line2) ==
    /\ line1.mark = "1 "
    /\ line2.mark = "2 "
    /\ line1.len = TleLineLength
    /\ line2.len = TleLineLength

\* EarthSatellite(line1, line2, name, self.ts) and int(line1[2:7]) both
\* return; otherwise the except of line 238 skips the record
Constructs(line1, line2) ==
    /\ line1.sgp4
    /\ line2.sgp4
    /\ line1.norad # NoInt

\* the dict stored under norad_id; 'satellite' is bound to the two lines
SatelliteEntry(name, line1, line2) ==
    [norad_id  |-> line1.norad,
     name      |-> name,
     tle_line1 |-> line1,
     tle_line2 |-> line2,
     category  |-> CategorizeSatellite(name, line1.norad)]

\* mutant: the id is not looked up
IsNewId_Always(norad_id, all_satellites) == TRUE

\* if norad_id not in all_satellites
IsNewId(norad_id, all_satellites) == norad_id \notin Keys(all_satellites)

\* mutant: > for >=
ParseLimitReached_Late(satellite_count, url_satellite_count) ==
    satellite_count > SatelliteLimit \/ url_satellite_count > SatelliteLimit

\* if satellite_count >= 2000 or url_satellite_count >= 2000: break
ParseLimitReached(satellite_count, url_satellite_count) ==
    satellite_count >= SatelliteLimit \/ url_satellite_count >= SatelliteLimit

\* for i in range(0, len(lines) - 2, 3), from the record at lines[i..i+2]
\* (i counts from 1 here); st holds all_satellites, satellite_count and
\* url_satellite_count
RECURSIVE ParseFrom(_, _, _)
ParseFrom(lines, i, st) ==
    IF i > Len(lines) - 2 THEN st
    ELSE IF ParseLimitReached(st.satellite_count, st.url_satellite_count) THEN st
    ELSE IF i + 2 > Len(lines) THEN ParseFrom(lines, i + 3, st)
    ELSE LET name  == lines[i].text
             line1 == lines[i + 1]
             line2 == lines[i + 2]
         IN  IF /\ ValidTleFormat(line1, line2)
                /\ Constructs(line1, line2)
                /\ IsNewId(line1.norad, st.all_satellites)
             THEN ParseFrom(lines, i + 3,
                    [all_satellites |->
                         Append(st.all_satellites, SatelliteEntry(name, line1, line2)),
                     satellite_count     |-> st.satellite_count + 1,
                     url_satellite_count |-> st.url_satellite_count + 1])
             ELSE ParseFrom(lines, i + 3, st)

\* the body of one endpoint, parsed into the accumulating result
ParseBody(lines, all_satellites, satellite_count) ==
    ParseFrom(lines, 1,
        [all_satellites      |-> all_satellites,
         satellite_count     |-> satellite_count,
         url_satellite_count |-> 0])

----------------------------------------------------------------------------
(* State *)

VARIABLES
    satellites,     \* self.satellites
    categories,     \* self.categories[c]['satellites'], for every key c
    last_update,    \* self.last_update
    now,            \* time.time()
    ticks,          \* how often the clock has advanced
    pc,             \* where each thread stands
    caller,         \* what the thread runs: "init", "refresh", "positions", ...
    load,           \* the locals of load_tle_data, per thread
    upd,            \* the loops of _update_category_lists, per thread
    response,       \* history: what the last endpoint answered
    fetched,        \* history: the endpoints fetched by the running ingestion
    fallback_failed,\* history: the built-in record could not be constructed
    load_result,    \* how the thread's load_tle_data ended
    built_at,       \* history: when the catalog in self.satellites was built
    args,           \* the arguments of the thread's operation
    result          \* what the thread's operation returns

vars == <<satellites, categories, last_update, now, ticks, pc, caller, load,
          upd, response, fetched, fallback_failed, load_result, built_at, args,
          result>>

shared == <<satellites, categories, last_update>>
clock  == <<now, ticks>>
hist   == <<response, fetched, fallback_failed, load_result>>

\* all_satellites = {}; satellite_count = 0
NewLoad ==
    [all_satellites   |-> <<>>,
     satellite_count  |-> 0,
     source_index     |-> 1,
     url_index        |-> 1,
     successful_loads |-> 0]

NoUpdate == [cat_index |-> 1, items |-> <<>>, item_index |-> 1]

NoResponse == [raised |-> FALSE, lines |-> <<>>]

NoResult == [op |-> "none"]

NoArgs == [op |-> "none"]

\* SatelliteTracker.__init__ up to its call of load_tle_data
Init ==
    /\ satellites = <<>>
    /\ categories = EmptyCategories
    /\ last_update = None
    /\ now = 0
    /\ ticks = 0
    /\ pc = [t \in Threads |-> IF t = "main" THEN "load" ELSE "idle"]
    /\ caller = [t \in Threads |-> IF t = "main" THEN "init" ELSE "none"]
    /\ load = [t \in Threads |-> NewLoad]
    /\ upd = [t \in Threads |-> NoUpdate]
    /\ response = [t \in Threads |-> NoResponse]
    /\ fetched = [t \in Threads |-> <<>>]
    /\ fallback_failed = [t \in Threads |-> FALSE]
    /\ load_result = [t \in Threads |-> "none"]
    /\ built_at = None
    /\ args = [t \in Threads |-> NoArgs]
    /\ result = [t \in Threads |-> NoResult]

\* the routes reach the tracker once __init__ has returned
Constructed == caller["main"] # "init"

----------------------------------------------------------------------------
(* load_tle_data *)

\* satellite_count >= 2000
LimitReached(satellite_count) == satellite_count >= SatelliteLimit

\* mutant: the break of line 253 is left out
SourceSetSucceeded_Never(successful_loads) == FALSE

\* mutant: one endpoint with records is not enough
SourceSetSucceeded_Two(successful_loads) == successful_loads > 1

\* if successful_loads > 0: break
SourceSetSucceeded(successful_loads) == successful_loads > 0

\* history: the 3-line records of a body, one after the other; lines left
\* over at the end belong to no record
Triplets(lines) ==
    [k \in 1..(Len(lines) \div 3) |->
        [name  |-> lines[3 * k - 2].text,
         line1 |-> lines[3 * k - 1],
         line2 |-> lines[3 * k]]]

\* history: a record with both markers, both lengths, elements the
\* propagator takes and a catalog id that is an integer
IsValidTriplet(x) ==
    /\ x.line1.mark = "1 " /\ x.line1.len = 69
    /\ x.line2.mark = "2 " /\ x.line2.len = 69
    /\ x.line1.sgp4 /\ x.line2.sgp4
    /\ x.line1.norad # NoInt

\* history: the valid records an endpoint served, in the order of its body
ValidRecords(r) ==
    IF r.raised THEN <<>> ELSE SelectSeq(Triplets(r.lines), IsValidTriplet)

\* if not all_satellites, line 258: where the method goes on after the loops
AfterSourceSets(l) ==
    IF l.all_satellites = <<>> THEN "fallback" ELSE "publish"

\* lines 188-189, and the for of line 191 started
LoadBegin(t) ==
    /\ pc[t] = "load"
    /\ load' = [load EXCEPT ![t] = NewLoad]
    /\ pc' = [pc EXCEPT ![t] = "sets"]
    /\ UNCHANGED <<shared, clock, built_at, args, caller, upd, hist, result>>

\* for source_index, tle_urls in enumerate(tle_source_sets), lines 191-196;
\* when the loop is through, line 258
NextSourceSet(t) ==
    /\ pc[t] = "sets"
    /\ IF \/ load[t].source_index > NumSourceSets
          \/ LimitReached(load[t].satellite_count)
       THEN /\ pc' = [pc EXCEPT ![t] = AfterSourceSets(load[t])]
            /\ UNCHANGED load
       ELSE /\ load' = [load EXCEPT ![t].successful_loads = 0,
                                    ![t].url_index = 1]
            /\ pc' = [pc EXCEPT ![t] = "urls"]
    /\ UNCHANGED <<shared, clock, built_at, args, caller, upd, hist, result>>

\* for url in tle_urls, lines 198-200
NextUrl(t) ==
    /\ pc[t] = "urls"
    /\ IF \/ load[t].url_index > UrlsPerSet
          \/ LimitReached(load[t].satellite_count)
       THEN /\ pc' = [pc EXCEPT ![t] = "set_end"]
            /\ response' = [response EXCEPT ![t] = NoResponse]
       ELSE /\ pc' = [pc EXCEPT ![t] = "fetch"]
            /\ UNCHANGED response
    /\ UNCHANGED <<shared, clock, built_at, args, caller, load, upd, fetched, fallback_failed,
                   load_result, result>>

\* mutant: an endpoint that raises ends the source set (break for continue)
AfterFetch_Abort(l, r) ==
    IF r.raised
    THEN [l EXCEPT !.url_index = UrlsPerSet + 1]
    ELSE LET st == ParseBody(r.lines, l.all_satellites, l.satellite_count)
         IN  [l EXCEPT !.all_satellites = st.all_satellites,
                       !.satellite_count = st.satellite_count,
                       !.successful_loads =
                           IF st.url_satellite_count > 0
                           THEN l.successful_loads + 1
                           ELSE l.successful_loads,
                       !.url_index = l.url_index + 1]

\* the locals after the try of lines 202-248 for one endpoint
AfterFetch(l, r) ==
    IF r.raised
    THEN [l EXCEPT !.url_index = l.url_index + 1]
    ELSE LET st == ParseBody(r.lines, l.all_satellites, l.satellite_count)
         IN  [l EXCEPT !.all_satellites = st.all_satellites,
                       !.satellite_count = st.satellite_count,
                       !.successful_loads =
                           IF st.url_satellite_count > 0
                           THEN l.successful_loads + 1
                           ELSE l.successful_loads,
                       !.url_index = l.url_index + 1]

\* one endpoint: requests.get, the parse loop, the count of line 242
Fetch(t, r) ==
    /\ pc[t] = "fetch"
    /\ load' = [load EXCEPT ![t] = AfterFetch(load[t], r)]
    /\ response' = [response EXCEPT ![t] = r]
    /\ fetched' = [fetched EXCEPT ![t] =
           Append(fetched[t], [set     |-> load[t].source_index,
                               url     |-> load[t].url_index,
                               records |-> ValidRecords(r)])]
    /\ pc' = [pc EXCEPT ![t] = "urls"]
    /\ UNCHANGED <<shared, clock, built_at, args, caller, upd, fallback_failed, load_result, result>>

\* lines 251-255; after the break, line 258
SourceSetEnd(t) ==
    /\ pc[t] = "set_end"
    /\ IF SourceSetSucceeded(load[t].successful_loads)
       THEN /\ pc' = [pc EXCEPT ![t] = AfterSourceSets(load[t])]
            /\ UNCHANGED load
       ELSE /\ load' = [load EXCEPT ![t].source_index = load[t].source_index + 1]
            /\ pc' = [pc EXCEPT ![t] = "sets"]
    /\ UNCHANGED <<shared, clock, built_at, args, caller, upd, hist, result>>

\* self.satellites = all_satellites, line 263
PublishSatellites(t) ==
    /\ pc[t] = "publish"
    /\ satellites' = load[t].all_satellites
    /\ pc' = [pc EXCEPT ![t] = "stamp"]
    /\ UNCHANGED <<categories, last_update, clock, built_at, args, caller, load, upd, hist, result>>

\* self.last_update = time.time(), line 264, and the call of line 267
StampLastUpdate(t) ==
    /\ pc[t] = "stamp"
    /\ last_update' = now
    /\ built_at' = now
    /\ upd' = [upd EXCEPT ![t] = NoUpdate]
    /\ pc' = [pc EXCEPT ![t] = "clear"]
    /\ UNCHANGED <<satellites, categories, clock, args, caller, load, hist, result>>

----------------------------------------------------------------------------
(* _update_category_lists *)

\* the places of the for of line 360 from place i on whose list holds an id
FilledFrom(i) ==
    {k \in i..Len(CategoryOrder) : categories[CategoryOrder[k]] # <<>>}

Min(S) == CHOOSE x \in S : \A y \in S : x <= y

\* for category in self.categories.values(): category['satellites'] = []
\* One step takes the loop to the next category whose list holds an id and
\* empties it: emptying an empty list changes nothing.  When no such
\* category is left the loop is through, and the for of line 363 takes
\* self.satellites.items().
ClearCategory(t) ==
    /\ pc[t] = "clear"
    /\ IF FilledFrom(upd[t].cat_index) = {}
       THEN /\ upd' = [upd EXCEPT ![t].cat_index = Len(CategoryOrder) + 1,
                                  ![t].items = satellites,
                                  ![t].item_index = 1]
            /\ pc' = [pc EXCEPT ![t] = "append"]
            /\ UNCHANGED categories
       ELSE LET k == Min(FilledFrom(upd[t].cat_index)) IN
            /\ categories' = [categories EXCEPT ![CategoryOrder[k]] = <<>>]
            /\ upd' = [upd EXCEPT ![t].cat_index = k + 1]
            /\ UNCHANGED pc
    /\ UNCHANGED <<satellites, last_update, clock, built_at, args, caller, load, hist, result>>

\* lines 363-366, one record of the dict
AppendCategory(t) ==
    /\ pc[t] = "append"
    /\ IF upd[t].item_index > Len(upd[t].items)
       THEN /\ pc' = [pc EXCEPT ![t] = "return"]
            /\ UNCHANGED <<categories, upd>>
       ELSE LET sat_data == upd[t].items[upd[t].item_index]
                category == sat_data.category
            IN  /\ IF category \in CategoryKeys
                   THEN categories' = [categories EXCEPT ![category] =
                            Append(categories[category], sat_data.norad_id)]
                   ELSE UNCHANGED categories
                /\ upd' = [upd EXCEPT ![t].item_index = upd[t].item_index + 1]
                /\ UNCHANGED pc
    /\ UNCHANGED <<satellites, last_update, clock, built_at, args, caller, load, hist, result>>

----------------------------------------------------------------------------
(* _load_fallback_data *)

\* the dict of lines 377-385
FallbackSatellites ==
    << [norad_id  |-> FallbackNoradId,
        name      |-> ISS_NAME,
        tle_line1 |-> iss_tle1,
        tle_line2 |-> iss_tle2,
        category  |-> "ISS"] >>

\* lines 375-388: constructed says whether EarthSatellite returned; when it
\* raises, the except logs and the method returns
LoadFallbackData(t, constructed) ==
    /\ pc[t] = "fallback"
    /\ IF constructed
       THEN /\ satellites' = FallbackSatellites
            /\ built_at' = now
            /\ upd' = [upd EXCEPT ![t] = NoUpdate]
            /\ pc' = [pc EXCEPT ![t] = "clear"]
            /\ UNCHANGED fallback_failed
       ELSE /\ fallback_failed' = [fallback_failed EXCEPT ![t] = TRUE]
            /\ pc' = [pc EXCEPT ![t] = "return"]
            /\ UNCHANGED <<satellites, upd, built_at>>
    /\ UNCHANGED <<categories, last_update, clock, args, caller, load, response,
                   fetched, load_result, result>>

\* load_tle_data returns (lines 261, 269) and its locals are gone: to
\* __init__, to refresh_tle_data, into get_satellite_positions or to the
\* route get_satellites
LoadReturn(t) ==
    /\ pc[t] = "return"
    /\ load_result' = [load_result EXCEPT ![t] = "returned"]
    /\ load' = [load EXCEPT ![t] = NewLoad]
    /\ upd' = [upd EXCEPT ![t] = NoUpdate]
    /\ pc' = [pc EXCEPT ![t] =
           IF caller[t] = "positions" THEN "positions"
           ELSE IF caller[t] = "api_satellites" THEN "api_positions"
           ELSE "respond"]
    /\ UNCHANGED <<shared, clock, built_at, args, caller, response, fetched, fallback_failed,
                   result>>

----------------------------------------------------------------------------
(* The operations the routes call *)

\* _should_update_tle
ShouldUpdateTle ==
    IF last_update = None THEN TRUE
    ELSE now - last_update > update_interval

\* get_satellite_positions, lines 396-397
GetSatellitePositions(t) ==
    /\ pc[t] = "idle"
    /\ Constructed
    /\ caller' = [caller EXCEPT ![t] = "positions"]
    /\ pc' = [pc EXCEPT ![t] = IF ShouldUpdateTle THEN "load" ELSE "positions"]
    /\ UNCHANGED <<shared, clock, built_at, args, load, upd, hist, result>>

----------------------------------------------------------------------------
(* The launch date.  A date is written as its year and its day of the     *)
(* year, which is what strftime("%Y-%m-%d") prints.                        *)

Digits == <<"0", "1", "2", "3", "4", "5", "6", "7", "8", "9">>

\* the characters of the year columns in the order of their code points
CodeOrder == <<" ">> \o Digits \o <<"X">>

Ord(c) == CHOOSE i \in DOMAIN CodeOrder : CodeOrder[i] = c

\* a < b for two strings of the same length
RECURSIVE StrLessFrom(_, _, _)
StrLessFrom(a, b, i) ==
    IF i > Len(a) THEN FALSE
    ELSE IF Ord(a[i]) # Ord(b[i]) THEN Ord(a[i]) < Ord(b[i])
    ELSE StrLessFrom(a, b, i + 1)

StrLess(a, b) == StrLessFrom(a, b, 1)

\* s.strip(), as int() does it
RECURSIVE Strip(_)
Strip(s) ==
    IF s = <<>> THEN s
    ELSE IF Head(s) = " " THEN Strip(Tail(s))
    ELSE IF s[Len(s)] = " " THEN Strip(SubSeq(s, 1, Len(s) - 1))
    ELSE s

RECURSIVE DigitsValue(_)
DigitsValue(s) ==
    IF s = <<>> THEN 0
    ELSE 10 * DigitsValue(SubSeq(s, 1, Len(s) - 1)) + (Ord(s[Len(s)]) - 2)

\* int(s): NoInt when it raises ValueError
IntOf(s) ==
    LET d == Strip(s) IN
    IF d # <<>> /\ \A i \in DOMAIN d : \E k \in DOMAIN Digits : Digits[k] = d[i]
    THEN DigitsValue(d) ELSE NoInt

\* mutant: every year is read as a year of this century
EpochYear_ThisCentury(yy) == IntOf(<<"2", "0">> \o yy)

\* int('20' + yy) if yy < '57' else int('19' + yy), lines 424 and 639
EpochYear(yy) ==
    IF StrLess(yy, <<"5", "7">>) THEN IntOf(<<"2", "0">> \o yy)
    ELSE IntOf(<<"1", "9">> \o yy)

IsLeap(year) == (year % 4 = 0 /\ year % 100 # 0) \/ year % 400 = 0

YearLength(year) == IF IsLeap(year) THEN 366 ELSE 365

\* launch_date = "Unknown"
Unknown == [year |-> 0, yday |-> 0]

\* the date that lies days after the day before the first of January of
\* year; datetime raises OverflowError before the year 1
RECURSIVE DateFrom(_, _)
DateFrom(year, days) ==
    IF year < 1 THEN Unknown
    ELSE IF days < 1 THEN DateFrom(year - 1, days + YearLength(year - 1))
    ELSE IF days > YearLength(year) THEN DateFrom(year + 1, days - YearLength(year))
    ELSE [year |-> year, yday |-> days]

\* datetime(year, 1, 1) + timedelta(days=day_of_year - 1), and strftime of
\* it, inside the try: int() and float() raise on what is no number, and
\* timedelta raises on nan
LaunchDate(year, day) ==
    IF year = NoInt \/ day = NoFloat \/ day = NaN THEN Unknown
    ELSE DateFrom(year, 1 + ((day - 2) \div 2))

\* _extract_launch_date, lines 636-644
ExtractLaunchDate(epoch_str) ==
    LaunchDate(EpochYear(epoch_str.yy), epoch_str.day)

\* get_satellite_positions, lines 420-431
PositionLaunchDate(tle_epoch) ==
    LaunchDate(EpochYear(tle_epoch.yy), tle_epoch.day)

\* the try of lines 403-446 gets through for the record: satellite.at
\* returns and float(sat_data['tle_line2'][52:63]) is a number
PositionComputes(sat_data) ==
    /\ sat_data.tle_line1.propagates
    /\ sat_data.tle_line2.propagates
    /\ sat_data.tle_line2.mean_motion # NoFloat

\* orbital_period = 1440 / mean_motion if mean_motion > 0 else 0
OrbitalPeriod(mean_motion) ==
    IF mean_motion > 0 THEN 1440 \div mean_motion ELSE 0

\* the dict of lines 435-446; the sub-point and the velocity are those of
\* the record's elements at the time of the call
PositionRecord(sat_data) ==
    [norad_id       |-> sat_data.norad_id,
     name           |-> sat_data.name,
     elements       |-> sat_data.tle_line2.rev,
     orbital_period |-> OrbitalPeriod(sat_data.tle_line2.mean_motion),
     category       |-> sat_data.category,
     launch_date    |-> PositionLaunchDate(sat_data.tle_line1.epoch)]

\* mutant: the first record that fails ends the loop (break for continue)
RECURSIVE PositionsOf_Abort(_)
PositionsOf_Abort(sats) ==
    IF sats = <<>> \/ ~PositionComputes(Head(sats)) THEN <<>>
    ELSE <<PositionRecord(Head(sats))>> \o PositionsOf_Abort(Tail(sats))

\* the for of lines 402-450 over self.satellites.items(): a record whose
\* try raises is logged and passed over
RECURSIVE PositionsOf(_)
PositionsOf(sats) ==
    IF sats = <<>> THEN <<>>
    ELSE IF PositionComputes(Head(sats))
    THEN <<PositionRecord(Head(sats))>> \o PositionsOf(Tail(sats))
    ELSE PositionsOf(Tail(sats))

\* get_satellite_positions, lines 399-452: one entry per record
ComputePositions(t) ==
    /\ pc[t] = "positions"
    /\ result' = [result EXCEPT ![t] =
           [op |-> "positions", raised |-> FALSE,
            satellites |-> PositionsOf(satellites)]]
    /\ pc' = [pc EXCEPT ![t] = "respond"]
    /\ UNCHANGED <<shared, clock, built_at, args, caller, load, upd, hist>>

\* the catalog ids the queries ask for: ids of the sample records and one
\* that no endpoint serves
QueryIds == {25544, 44713, 99999, 20001, 20002, 12345}

\* get_satellite_details, lines 456-457: the membership test
GetSatelliteDetails(t, norad_id) ==
    /\ pc[t] = "idle"
    /\ Constructed
    /\ caller' = [caller EXCEPT ![t] = "details"]
    /\ args' = [args EXCEPT ![t] = [op |-> "details", norad_id |-> norad_id]]
    /\ IF norad_id \notin Keys(satellites)
       THEN /\ result' = [result EXCEPT ![t] =
                   [op |-> "details", raised |-> FALSE, value |-> <<>>]]
            /\ pc' = [pc EXCEPT ![t] = "respond"]
       ELSE /\ pc' = [pc EXCEPT ![t] = "details"]
            /\ UNCHANGED result
    /\ UNCHANGED <<shared, clock, built_at, load, upd, hist>>

\* the try of lines 463-539 gets through: satellite.at returns and the five
\* float(...) of lines 479-483 are numbers
DetailsCompute(sat_data) ==
    /\ sat_data.tle_line1.propagates
    /\ sat_data.tle_line2.propagates
    /\ sat_data.tle_line2.mean_motion # NoFloat

\* a < b for floats
Less(a, b) == a # NaN /\ b # NaN /\ a < b

\* mutant: the thresholds belong to the lower class
OrbitType_Inclusive(altitude) ==
    IF altitude # NaN /\ altitude <= 2000 * 1000 THEN "LEO (Low Earth Orbit)"
    ELSE IF altitude # NaN /\ altitude <= 35000 * 1000
    THEN "MEO (Medium Earth Orbit)"
    ELSE "GEO (Geostationary Orbit)"

\* lines 487-494, for the altitude in metres
OrbitType(altitude) ==
    IF Less(altitude, 2000 * 1000) THEN "LEO (Low Earth Orbit)"
    ELSE IF Less(altitude, 35000 * 1000) THEN "MEO (Medium Earth Orbit)"
    ELSE "GEO (Geostationary Orbit)"

\* line 505
Visibility(altitude) ==
    IF Less(altitude, 1000 * 1000) THEN "Visible" ELSE "Telescope Required"

\* the dict of lines 510-539; altitude is subpoint.elevation, in metres
DetailRecord(sat_data, altitude) ==
    [norad_id   |-> sat_data.norad_id,
     name       |-> sat_data.name,
     category   |-> sat_data.category,
     elements   |-> sat_data.tle_line2.rev,
     altitude   |-> altitude,
     orbit_type |-> OrbitType(altitude),
     visibility |-> Visibility(altitude),
     period     |-> OrbitalPeriod(sat_data.tle_line2.mean_motion),
     status     |-> IF sat_data.tle_line2.mean_motion > 0
                    THEN "Active" ELSE "Inactive",
     launch_date |-> ExtractLaunchDate(sat_data.tle_line1.epoch),
     line1      |-> sat_data.tle_line1,
     line2      |-> sat_data.tle_line2]

\* what get_satellite_details returns from line 459 on, as the list of the
\* dict returned (empty for None); self.satellites[norad_id] raises
\* KeyError when the id is not a key
DetailsOf(sats, norad_id, altitude) ==
    IF norad_id \notin Keys(sats)
    THEN [op |-> "details", raised |-> TRUE, value |-> <<>>]
    ELSE IF DetailsCompute(Get(sats, norad_id))
    THEN [op |-> "details", raised |-> FALSE,
          value |-> <<DetailRecord(Get(sats, norad_id), altitude)>>]
    ELSE [op |-> "details", raised |-> FALSE, value |-> <<>>]

\* mutant: the record is taken out of the catalog (pop for the subscript)
DetailsLookup_Pop(t, altitude) ==
    /\ pc[t] = "details"
    /\ result' = [result EXCEPT ![t] =
           DetailsOf(satellites, args[t].norad_id, altitude)]
    /\ satellites' = SelectSeq(satellites,
                                LAMBDA s : s.norad_id # args[t].norad_id)
    /\ pc' = [pc EXCEPT ![t] = "respond"]
    /\ UNCHANGED <<categories, last_update, clock, built_at, args, caller,
                   load, upd, hist>>

\* get_satellite_details, lines 459-543, for the altitude that the
\* propagation gives
DetailsLookup(t, altitude) ==
    /\ pc[t] = "details"
    /\ result' = [result EXCEPT ![t] =
           DetailsOf(satellites, args[t].norad_id, altitude)]
    /\ pc' = [pc EXCEPT ![t] = "respond"]
    /\ UNCHANGED <<shared, clock, built_at, args, caller, load, upd, hist>>

----------------------------------------------------------------------------
(* get_orbital_path.  The sub-point of a record at a time is written as    *)
(* the record's elements and the time, in seconds from current_time.       *)

\* get_orbital_path, lines 648-649: the membership test
GetOrbitalPath(t, norad_id, hours) ==
    /\ pc[t] = "idle"
    /\ Constructed
    /\ caller' = [caller EXCEPT ![t] = "orbit"]
    /\ args' = [args EXCEPT ![t] =
           [op |-> "orbit", norad_id |-> norad_id, hours |-> hours]]
    /\ IF norad_id \notin Keys(satellites)
       THEN /\ result' = [result EXCEPT ![t] =
                   [op |-> "orbit", raised |-> FALSE, orbit_points |-> <<>>]]
            /\ pc' = [pc EXCEPT ![t] = "respond"]
       ELSE /\ pc' = [pc EXCEPT ![t] = "orbit"]
            /\ UNCHANGED result
    /\ UNCHANGED <<shared, clock, built_at, load, upd, hist>>

\* dt = current_time.tt + (i * hours) / (24 * num_points), as the seconds
\* after current_time
SampleTime(i, hours) == (i * hours * 3600) \div num_points

\* for i in range(num_points), lines 658-660
TimePoints(hours) == [n \in 1..num_points |-> SampleTime(n - 1, hours)]

\* the for of lines 664-677: a sample at which satellite.at raises is
\* logged and passed over; failing holds the places of those samples
OrbitPointsOf(sat_data, hours, failing) ==
    LET time_points == TimePoints(hours)
        computes == sat_data.tle_line1.propagates /\ sat_data.tle_line2.propagates
        places == {n \in DOMAIN time_points : computes /\ n \notin failing}
        Place(k) == CHOOSE n \in places :
                        Cardinality({m \in places : m <= n}) = k
    IN  [k \in 1..Cardinality(places) |->
            [elements |-> sat_data.tle_line2.rev, at |-> time_points[Place(k)]]]

\* the samples at which the propagation raises: none, the first, the last,
\* two in the middle, all
FailingSamples == {{}, {1}, {num_points}, {2, 3}, 1..num_points}

\* get_orbital_path, lines 651-679; self.satellites[norad_id] raises
\* KeyError when the id is not a key
OrbitLookup(t, failing) ==
    /\ pc[t] = "orbit"
    /\ args' = [args EXCEPT ![t] =
           [op |-> "orbit", norad_id |-> args[t].norad_id,
            hours |-> args[t].hours, failing |-> failing]]
    /\ result' = [result EXCEPT ![t] =
           IF args[t].norad_id \notin Keys(satellites)
           THEN [op |-> "orbit", raised |-> TRUE, orbit_points |-> <<>>]
           ELSE [op |-> "orbit", raised |-> FALSE,
                 orbit_points |->
                     OrbitPointsOf(Get(satellites, args[t].norad_id),
                                   args[t].hours, failing)]]
    /\ pc' = [pc EXCEPT ![t] = "respond"]
    /\ UNCHANGED <<shared, clock, built_at, caller, load, upd, hist>>

----------------------------------------------------------------------------
(* get_next_passes.  Times are counted in quarters of a second; azimuth    *)
(* and elevation at a time are written as that time.                       *)

\* get_next_passes, lines 683-684: the membership test
GetNextPasses(t, norad_id) ==
    /\ pc[t] = "idle"
    /\ Constructed
    /\ caller' = [caller EXCEPT ![t] = "passes"]
    /\ args' = [args EXCEPT ![t] = [op |-> "passes", norad_id |-> norad_id]]
    /\ IF norad_id \notin Keys(satellites)
       THEN /\ result' = [result EXCEPT ![t] =
                   [op |-> "passes", raised |-> FALSE, passes |-> <<>>]]
            /\ pc' = [pc EXCEPT ![t] = "respond"]
       ELSE /\ pc' = [pc EXCEPT ![t] = "passes"]
            /\ UNCHANGED result
    /\ UNCHANGED <<shared, clock, built_at, load, upd, hist>>

\* time_point.utc_iso(): the time to the nearest second, as the seconds of
\* the string
UtcIso(time) == (time + 2) \div 4

\* datetime.fromisoformat(s.replace('Z', '+00:00')), and ts.from_datetime
\* of it, in quarters of a second
FromIso(seconds) == 4 * seconds

\* current_pass = {}
EmptyPass ==
    [rise_time |-> Absent, rise_azimuth |-> Absent,
     culmination_time |-> Absent, max_elevation |-> Absent,
     culmination_azimuth |-> Absent,
     set_time |-> Absent, set_azimuth |-> Absent,
     duration_minutes |-> Absent]

\* mutant: the test is left out
PassOpen_Always(current_pass) == TRUE

\* if current_pass:
PassOpen(current_pass) == current_pass # EmptyPass

\* lines 704-707
AtRise(e) ==
    [EmptyPass EXCEPT !.rise_time = UtcIso(e.time), !.rise_azimuth = None]

\* lines 710-716
AtCulmination(current_pass, e) ==
    [current_pass EXCEPT !.culmination_time = UtcIso(e.time),
                         !.max_elevation = e.time,
                         !.culmination_azimuth = e.time]

\* lines 719-737; duration_minutes is held in sixtieths of a minute, which
\* is total_seconds()
AtSet(current_pass, e) ==
    LET with_set == [current_pass EXCEPT !.set_time = UtcIso(e.time)] IN
    IF with_set.rise_time # Absent
    THEN [with_set EXCEPT
              !.rise_azimuth = FromIso(with_set.rise_time),
              !.set_azimuth = e.time,
              !.duration_minutes = with_set.set_time - with_set.rise_time]
    ELSE [with_set EXCEPT !.set_azimuth = e.time]

\* mutant: a rise leaves an open pass as it is
RECURSIVE AssembleFrom_KeepFirstRise(_, _, _, _)
AssembleFrom_KeepFirstRise(events, i, current_pass, passes) ==
    IF i > Len(events) THEN passes
    ELSE LET e == events[i] IN
         IF e.kind = Rise
         THEN AssembleFrom_KeepFirstRise(events, i + 1,
                  IF PassOpen(current_pass) THEN current_pass ELSE AtRise(e),
                  passes)
         ELSE IF e.kind = Culmination
         THEN IF ~PassOpen(current_pass)
              THEN AssembleFrom_KeepFirstRise(events, i + 1, current_pass, passes)
              ELSE IF e.altaz_raises THEN passes
              ELSE AssembleFrom_KeepFirstRise(events, i + 1,
                       AtCulmination(current_pass, e), passes)
         ELSE IF e.kind = SetEvent
         THEN IF ~PassOpen(current_pass)
              THEN AssembleFrom_KeepFirstRise(events, i + 1, current_pass, passes)
              ELSE IF e.altaz_raises THEN passes
              ELSE AssembleFrom_KeepFirstRise(events, i + 1, EmptyPass,
                       Append(passes, AtSet(current_pass, e)))
         ELSE AssembleFrom_KeepFirstRise(events, i + 1, current_pass, passes)

\* the for of lines 702-740 from event i on; an altaz that raises takes the
\* method to the except of line 742 with the passes appended so far
RECURSIVE AssembleFrom(_, _, _, _)
AssembleFrom(events, i, current_pass, passes) ==
    IF i > Len(events) THEN passes
    ELSE LET e == events[i] IN
         IF e.kind = Rise
         THEN AssembleFrom(events, i + 1, AtRise(e), passes)
         ELSE IF e.kind = Culmination
         THEN IF ~PassOpen(current_pass)
              THEN AssembleFrom(events, i + 1, current_pass, passes)
              ELSE IF e.altaz_raises THEN passes
              ELSE AssembleFrom(events, i + 1,
                                AtCulmination(current_pass, e), passes)
         ELSE IF e.kind = SetEvent
         THEN IF ~PassOpen(current_pass)
              THEN AssembleFrom(events, i + 1, current_pass, passes)
              ELSE IF e.altaz_raises THEN passes
              ELSE AssembleFrom(events, i + 1, EmptyPass,
                                Append(passes, AtSet(current_pass, e)))
         ELSE AssembleFrom(events, i + 1, current_pass, passes)

\* mutant: the last three for the first three
FirstPasses_Last(passes) ==
    IF Len(passes) <= PassLimit THEN passes
    ELSE SubSeq(passes, Len(passes) - PassLimit + 1, Len(passes))

\* passes[:3]
FirstPasses(passes) ==
    IF Len(passes) <= PassLimit THEN passes ELSE SubSeq(passes, 1, PassLimit)

\* lines 694-745 for what find_events and altaz answer: observed.raised
\* says that find_events raises
PassesOf(observed) ==
    IF observed.raised THEN <<>>
    ELSE FirstPasses(AssembleFrom(observed.events, 1, EmptyPass, <<>>))

\* get_next_passes, lines 688-745; self.satellites[norad_id] raises KeyError
\* when the id is not a key
PassesLookup(t, observed) ==
    /\ pc[t] = "passes"
    /\ args' = [args EXCEPT ![t] =
           [op |-> "passes", norad_id |-> args[t].norad_id,
            observed |-> observed]]
    /\ result' = [result EXCEPT ![t] =
           IF args[t].norad_id \notin Keys(satellites)
           THEN [op |-> "passes", raised |-> TRUE, passes |-> <<>>]
           ELSE [op |-> "passes", raised |-> FALSE,
                 passes |-> PassesOf(observed)]]
    /\ pc' = [pc EXCEPT ![t] = "respond"]
    /\ UNCHANGED <<shared, clock, built_at, caller, load, upd, hist>>

\* What find_events answers.  An event sequence is put together from
\* pieces: single events, also with an altaz that raises, and whole or
\* partial passes.
Event(kind, altaz_raises) == [kind |-> kind, altaz_raises |-> altaz_raises]

EventPieces ==
    { <<Event(Rise, FALSE)>>,
      <<Event(Culmination, FALSE)>>,
      <<Event(SetEvent, FALSE)>>,
      <<Event(Culmination, TRUE)>>,
      <<Event(SetEvent, TRUE)>>,
      <<Event(Rise, FALSE), Event(SetEvent, FALSE)>>,
      <<Event(Rise, FALSE), Event(Culmination, FALSE), Event(SetEvent, FALSE)>> }

RECURSIVE EventSeqs(_)
EventSeqs(n) ==
    IF n = 0 THEN {<<>>}
    ELSE LET S == EventSeqs(n - 1) IN
         S \cup {q \o p : q \in S, p \in EventPieces}

\* the time of event k of n: ten minutes apart, a quarter of a second
\* apart, or ten minutes apart and running backwards
EventTime(schedule, k, n) ==
    IF schedule = "sparse" THEN 2400 * k
    ELSE IF schedule = "dense" THEN k + 1
    ELSE 2400 * (n - k + 1)

Timed(q, schedule) ==
    [k \in DOMAIN q |->
        [kind |-> q[k].kind, altaz_raises |-> q[k].altaz_raises,
         time |-> EventTime(schedule, k, Len(q))]]

Observations(n) ==
    {[raised |-> TRUE, events |-> <<>>]}
      \cup {[raised |-> FALSE, events |-> Timed(q, schedule)] :
               q \in EventSeqs(n), schedule \in {"sparse", "dense", "reversed"}}

\* refresh_tle_data
RefreshTleData(t) ==
    /\ pc[t] = "idle"
    /\ Constructed
    /\ caller' = [caller EXCEPT ![t] = "refresh"]
    /\ pc' = [pc EXCEPT ![t] = "load"]
    /\ UNCHANGED <<shared, clock, built_at, args, load, upd, hist, result>>

\* get_satellite_categories
GetSatelliteCategories(t) ==
    /\ pc[t] = "idle"
    /\ Constructed
    /\ caller' = [caller EXCEPT ![t] = "categories"]
    /\ result' = [result EXCEPT ![t] =
           [op |-> "categories",
            categories |-> [c \in CategoryKeys |->
                [name       |-> CategoryDisplay[c].name,
                 color      |-> CategoryDisplay[c].color,
                 count      |-> Len(categories[c]),
                 satellites |-> categories[c]]]]]
    /\ pc' = [pc EXCEPT ![t] = "respond"]
    /\ UNCHANGED <<shared, clock, built_at, args, load, upd, hist>>

\* the operation hands its result to its caller and the thread is free
Respond(t) ==
    /\ pc[t] = "respond"
    /\ pc' = [pc EXCEPT ![t] = "idle"]
    /\ caller' = [caller EXCEPT ![t] = "none"]
    /\ result' = [result EXCEPT ![t] = NoResult]
    /\ args' = [args EXCEPT ![t] = NoArgs]
    /\ response' = [response EXCEPT ![t] = NoResponse]
    /\ fetched' = [fetched EXCEPT ![t] = <<>>]
    /\ fallback_failed' = [fallback_failed EXCEPT ![t] = FALSE]
    /\ load_result' = [load_result EXCEPT ![t] = "none"]
    /\ UNCHANGED <<shared, clock, built_at, load, upd>>

\* the route get_satellites of routes.py, lines 33-36: an empty catalog is
\* loaded before the positions are asked for
GetSatellites(t) ==
    /\ pc[t] = "idle"
    /\ Constructed
    /\ caller' = [caller EXCEPT ![t] = "api_satellites"]
    /\ args' = [args EXCEPT ![t] = [op |-> "api_satellites"]]
    /\ pc' = [pc EXCEPT ![t] =
           IF satellites = <<>> THEN "load" ELSE "api_positions"]
    /\ UNCHANGED <<shared, clock, built_at, load, upd, hist, result>>

\* routes.py, line 38: the call of get_satellite_positions, lines 396-397
RoutePositions(t) ==
    /\ pc[t] = "api_positions"
    /\ caller' = [caller EXCEPT ![t] = "positions"]
    /\ pc' = [pc EXCEPT ![t] = IF ShouldUpdateTle THEN "load" ELSE "positions"]
    /\ UNCHANGED <<shared, clock, built_at, args, load, upd, hist, result>>

\* routes.py, lines 39-51: the answer of the route, with the status that
\* Flask sends; an exception of the try gives the dict of the except
SatellitesEnvelope(positions) ==
    IF positions.raised
    THEN [op |-> "api_satellites", status |-> 200, success |-> FALSE,
          error |-> TRUE, satellites |-> <<>>]
    ELSE [op |-> "api_satellites", status |-> 200, success |-> TRUE,
          error |-> FALSE, satellites |-> positions.satellites]

JsonifySatellites(t) ==
    /\ pc[t] = "respond"
    /\ caller[t] = "positions"
    /\ args[t].op = "api_satellites"
    /\ result[t].op = "positions"
    /\ result' = [result EXCEPT ![t] = SatellitesEnvelope(result[t])]
    /\ UNCHANGED <<shared, clock, built_at, args, pc, caller, load, upd, hist>>

\* time passes
Tick(d) ==
    /\ ticks < MaxTicks
    /\ now' = now + d
    /\ ticks' = ticks + 1
    /\ UNCHANGED <<shared, pc, caller, load, upd, hist, built_at, args, result>>

----------------------------------------------------------------------------
(* Specifications *)

Step(t, responses) ==
    \/ LoadBegin(t)
    \/ NextSourceSet(t)
    \/ NextUrl(t)
    \/ \E r \in responses : Fetch(t, r)
    \/ SourceSetEnd(t)
    \/ PublishSatellites(t)
    \/ StampLastUpdate(t)
    \/ ClearCategory(t)
    \/ AppendCategory(t)
    \/ \E constructed \in BOOLEAN : LoadFallbackData(t, constructed)
    \/ LoadReturn(t)
    \/ GetSatellitePositions(t)
    \/ ComputePositions(t)
    \/ RefreshTleData(t)
    \/ GetSatelliteCategories(t)
    \/ Respond(t)

\* the queries for one catalog id
Query(t) ==
    \/ \E norad_id \in QueryIds : GetSatelliteDetails(t, norad_id)
    \/ \E altitude \in {408 * 1000} : DetailsLookup(t, altitude)
    \/ \E norad_id \in QueryIds, hours \in {1, 2, 24} :
           GetOrbitalPath(t, norad_id, hours)
    \/ /\ pc[t] = "orbit"
       /\ \E failing \in FailingSamples : OrbitLookup(t, failing)
    \/ \E norad_id \in QueryIds : GetNextPasses(t, norad_id)
    \/ /\ pc[t] = "passes"
       /\ \E observed \in Observations(1) : PassesLookup(t, observed)

\* one worker: every request runs to its end before the next starts, and
\* the requests follow each other within the second
Next ==
    \/ Step("main", Responses)
    \/ Query("main")

Spec == Init /\ [][Next]_vars

\* the endpoints of the runs in which time passes answer with an error or
\* with one body
ClockResponses ==
    {r \in Responses : r.raised \/ r.lines = T_SHORT \o T_UNKNOWN}

\* one worker, with seconds and days passing between and during the requests
NextClock ==
    \/ Step("main", ClockResponses)
    \/ \E d \in {1, update_interval} : Tick(d)

SpecClock == Init /\ [][NextClock]_vars

\* the endpoints of the two-worker runs answer with an error or with one
\* body
ConcResponses ==
    {r \in Responses : r.raised \/ r.lines = T_SHORT \o T_UNKNOWN}

\* two workers: the requests of one interleave with the requests of the other
NextConc == \E t \in Threads : Step(t, ConcResponses)

SpecConc == Init /\ [][NextConc]_vars

\* the route get_satellites next to the operations of the tracker, with
\* endpoints that answer with an error or with one body
Route(t) ==
    \/ GetSatellites(t)
    \/ RoutePositions(t)
    \/ JsonifySatellites(t)

NextRoute ==
    \/ Step("main", ClockResponses)
    \/ Route("main")

SpecRoute == Init /\ [][NextRoute]_vars

\* two workers, one that loads the catalog and one that asks for the record
\* of the station or of the sample object: a query interleaves with an
\* ingestion
RaceIds == {FallbackNoradId, 99999}

RaceQuery(t) ==
    \/ \E norad_id \in RaceIds : GetSatelliteDetails(t, norad_id)
    \/ \E altitude \in {408 * 1000} : DetailsLookup(t, altitude)
    \/ \E norad_id \in RaceIds : GetOrbitalPath(t, norad_id, 2)
    \/ OrbitLookup(t, {})
    \/ \E norad_id \in RaceIds : GetNextPasses(t, norad_id)
    \/ /\ pc[t] = "passes"
       /\ \E observed \in Observations(0) : PassesLookup(t, observed)
    \/ Respond(t)

NextRace ==
    \/ Step("main", ConcResponses)
    \/ RaceQuery("worker")

SpecRace == Init /\ [][NextRace]_vars

\* _categorize_satellite on its own: the names are one word or two words
\* with a blank between them, in capitals, in small letters or mixed, and
\* the three names of the sample records
SampleWords ==
    { <<"I","S","S">>,
      <<"G","P","S">>,
      <<"N","a","v","s","t","a","r">>,
      <<"G","L","O","N","A","S","S">>,
      <<"g","a","l","i","l","e","o">>,
      <<"B","e","i","D","o","u">>,
      <<"C","O","M","P","A","S","S">>,
      <<"S","t","a","r","l","i","n","k">>,
      <<"O","N","E","W","E","B">>,
      <<"i","r","i","d","i","u","m">>,
      <<"S","E","S">>,
      <<"T","e","l","e","c","o","m">>,
      <<"G","E","O">>,
      <<"R","a","d","i","o">>,
      <<"S","A","T">>,
      <<"X","-","1">> }

SampleNames ==
    SampleWords
      \cup {a \o <<" ">> \o b : a \in SampleWords, b \in SampleWords}
      \cup {ISS_NAME, STARLINK_NAME, UNKNOWN_NAME}

SampleIds == {25544, 44713, 99999}

InitCategorize ==
    /\ satellites = <<>>
    /\ categories = EmptyCategories
    /\ last_update = None
    /\ now = 0
    /\ ticks = 0
    /\ pc = [t \in Threads |-> IF t = "main" THEN "categorize" ELSE "idle"]
    /\ caller = [t \in Threads |-> "none"]
    /\ load = [t \in Threads |-> NewLoad]
    /\ upd = [t \in Threads |-> NoUpdate]
    /\ response = [t \in Threads |-> NoResponse]
    /\ fetched = [t \in Threads |-> <<>>]
    /\ fallback_failed = [t \in Threads |-> FALSE]
    /\ load_result = [t \in Threads |-> "none"]
    /\ built_at = None
    /\ \E name \in SampleNames, norad_id \in SampleIds :
           args = [t \in Threads |->
                      IF t = "main"
                      THEN [op |-> "categorize", name |-> name,
                            norad_id |-> norad_id]
                      ELSE NoArgs]
    /\ result = [t \in Threads |-> NoResult]

\* category = self._categorize_satellite(name, norad_id)
Categorize(t) ==
    /\ pc[t] = "categorize"
    /\ result' = [result EXCEPT ![t] =
           [op |-> "categorize",
            category |-> CategorizeSatellite(args[t].name, args[t].norad_id)]]
    /\ pc' = [pc EXCEPT ![t] = "categorized"]
    /\ UNCHANGED <<shared, clock, built_at, args, caller, load, upd, hist>>

NextCategorize == Categorize("main")

SpecCategorize == InitCategorize /\ [][NextCategorize]_vars

\* the altitudes that the propagation gives, in metres: at, next to and
\* away from the thresholds, and the one of no position
Altitudes ==
    {-1000, 0, 408 * 1000, 1000 * 1000 - 1, 1000 * 1000,
     2000 * 1000 - 1, 2000 * 1000, 2000 * 1000 + 1, 2001 * 1000,
     20200 * 1000, 35000 * 1000 - 1, 35000 * 1000, 35000 * 1000 + 1,
     35786 * 1000, 42164 * 1000, NaN}

\* the days of the epochs: 1.0, 1.5, 182.5, 365.5 and 366.0, columns that
\* are no number, and nan
EpochDays == {2, 3, 365, 731, 732, NoFloat, NaN}

\* the years of the epochs: 00 to 99, columns with a letter, and a year of
\* one digit with a blank before or after it
EpochYears ==
    {<<Digits[a], Digits[b]>> : a \in DOMAIN Digits, b \in DOMAIN Digits}
      \cup {<<"X", "X">>, <<" ", "5">>, <<"5", " ">>}

\* get_satellite_details and get_satellite_positions on their own, for a
\* catalog of one record that an endpoint served: the record of the station
\* with one of the epochs
InitDetails ==
    /\ \E yy \in EpochYears, day \in EpochDays :
           satellites = <<[FallbackSatellites[1] EXCEPT
                              !.tle_line1.epoch = Epoch(yy, day)]>>
    /\ categories = [EmptyCategories EXCEPT !["ISS"] = <<FallbackNoradId>>]
    /\ last_update = 0
    /\ now = 0
    /\ ticks = 0
    /\ pc = [t \in Threads |-> "idle"]
    /\ caller = [t \in Threads |-> "none"]
    /\ load = [t \in Threads |-> NewLoad]
    /\ upd = [t \in Threads |-> NoUpdate]
    /\ response = [t \in Threads |-> NoResponse]
    /\ fetched = [t \in Threads |-> <<>>]
    /\ fallback_failed = [t \in Threads |-> FALSE]
    /\ load_result = [t \in Threads |-> "none"]
    /\ built_at = 0
    /\ args = [t \in Threads |-> NoArgs]
    /\ result = [t \in Threads |-> NoResult]

NextDetails ==
    \/ \E norad_id \in {FallbackNoradId, 12345} :
           GetSatelliteDetails("main", norad_id)
    \/ /\ pc["main"] = "details"
       /\ \E altitude \in Altitudes : DetailsLookup("main", altitude)
    \/ GetSatellitePositions("main")
    \/ ComputePositions("main")
    \/ Respond("main")

SpecDetails == InitDetails /\ [][NextDetails]_vars

\* get_next_passes on its own, for the catalog of the built-in record: what
\* load_tle_data leaves when every endpoint raises
InitPasses ==
    /\ satellites = FallbackSatellites
    /\ categories = [EmptyCategories EXCEPT !["ISS"] = <<FallbackNoradId>>]
    /\ last_update = None
    /\ now = 0
    /\ ticks = 0
    /\ pc = [t \in Threads |-> "idle"]
    /\ caller = [t \in Threads |-> "none"]
    /\ load = [t \in Threads |-> NewLoad]
    /\ upd = [t \in Threads |-> NoUpdate]
    /\ response = [t \in Threads |-> NoResponse]
    /\ fetched = [t \in Threads |-> <<>>]
    /\ fallback_failed = [t \in Threads |-> FALSE]
    /\ load_result = [t \in Threads |-> "none"]
    /\ built_at = 0
    /\ args = [t \in Threads |-> NoArgs]
    /\ result = [t \in Threads |-> NoResult]

NextPasses ==
    \/ \E norad_id \in {FallbackNoradId, 12345} : GetNextPasses("main", norad_id)
    \/ /\ pc["main"] = "passes"
       /\ \E observed \in Observations(MaxPieces) :
              PassesLookup("main", observed)
    \/ Respond("main")

SpecPasses == InitPasses /\ [][NextPasses]_vars

----------------------------------------------------------------------------
(* Claims *)

LoadPcs == {"load", "sets", "urls", "fetch", "set_end", "fallback",
            "publish", "stamp", "clear", "append", "return"}

\* thread t is inside load_tle_data
InLoad(t) == pc[t] \in LoadPcs

\* the membership lists cats are the partition of the ids of sats by
\* category: every list holds, once each, exactly the ids of the records of
\* its category
IndexIsPartition(sats, cats) ==
    \A c \in CategoryKeys :
        /\ \A i, j \in DOMAIN cats[c] : i # j => cats[c][i] # cats[c][j]
        /\ {cats[c][i] : i \in DOMAIN cats[c]} =
               {sats[k].norad_id : k \in {n \in DOMAIN sats : sats[n].category = c}}

\* thread t is at a point where a query reads the tracker: before the loop
\* of get_satellite_positions, or with the projection that
\* get_satellite_categories has just made
AtReadPoint(t) ==
    \/ pc[t] = "positions"
    \/ pc[t] = "respond" /\ caller[t] = "categories"

\* C1: wherever a query reads while another thread ingests, the records and
\* the membership lists it finds are one completed snapshot: the lists are
\* the partition of the records by category.
C1_ReaderSeesOneSnapshot ==
    \A t \in Threads : AtReadPoint(t) => IndexIsPartition(satellites, categories)

\* C2: whenever no ingestion is running, the membership lists are the
\* partition of the catalog ids by the category of their records.
C2_IndexIsPartition ==
    (\A t \in Threads : ~InLoad(t)) => IndexIsPartition(satellites, categories)

\* C3: of the get_satellite_positions calls that found the catalog stale, at
\* most one is inside load_tle_data at any time.
C3_SingleFlight ==
    Cardinality({t \in Threads : caller[t] = "positions" /\ InLoad(t)}) <= 1

\* C4: when an ingestion has completed, the catalog is not empty.
C4_CatalogNeverEmpty ==
    \A t \in Threads : load_result[t] = "returned" => satellites # <<>>

\* C5: an ingestion in which the built-in record could not be constructed
\* ends with an error for its caller, never with a normal return.
C5_FallbackFailureSurfaces ==
    \A t \in Threads :
        (fallback_failed[t] /\ load_result[t] # "none") => load_result[t] = "failed"

\* the for loops of load_tle_data are through
LoadLoopDone(t) ==
    \/ pc[t] \in {"fallback", "publish", "stamp", "clear", "append", "return"}
    \/ load_result[t] = "returned"

\* thread t has just fetched an endpoint
JustFetched(t) == pc[t] = "fetch" /\ pc'[t] = "urls"

IsPrefix(a, b) == Len(a) <= Len(b) /\ SubSeq(b, 1, Len(a)) = a

\* C6: the endpoints are fetched in the order of the source sets and of
\* their urls, none twice; a source set is left for the next one only when
\* none of its endpoints served a valid record, no endpoint of a later set
\* is fetched once an endpoint has served one, the code takes a set for
\* successful exactly when one of its endpoints served a valid record, and
\* the loops end only after a successful set or after the last set.
C6_PriorityFallback ==
    \A t \in Threads :
        LET f == fetched[t] IN
        /\ f # <<>> => f[1].set = 1 /\ f[1].url = 1
        /\ \A i \in 1..(Len(f) - 1) :
              \/ f[i + 1].set = f[i].set /\ f[i + 1].url = f[i].url + 1
              \/ /\ f[i + 1].set = f[i].set + 1
                 /\ f[i + 1].url = 1
                 /\ \A j \in 1..i : f[j].records = <<>>
        /\ \A i, j \in DOMAIN f :
              (i < j /\ f[i].records # <<>>) => f[j].set = f[i].set
        /\ pc[t] = "set_end" =>
              (SourceSetSucceeded(load[t].successful_loads) <=>
                  \E i \in DOMAIN f :
                      f[i].set = load[t].source_index /\ f[i].records # <<>>)
        /\ LoadLoopDone(t) =>
              \/ \E i \in DOMAIN f : f[i].records # <<>>
              \/ \A k \in 1..NumSourceSets : \E i \in DOMAIN f : f[i].set = k

\* C6 witness: the first source set served no valid record, the second did,
\* and the ingestion is through without an endpoint of the third.
C6_Witness ==
    \E t \in Threads :
        /\ pc[t] = "return"
        /\ \E i \in DOMAIN fetched[t] :
              fetched[t][i].set = 2 /\ fetched[t][i].records # <<>>
        /\ \A i \in DOMAIN fetched[t] : fetched[t][i].set # 3

\* C7: when the loop over the endpoints of a source set ends, every endpoint
\* of the set has been fetched unless the ceiling is reached; a fetch never
\* takes a record out of the result, a fetch that raises leaves the locals
\* as they were and moves to the next endpoint, and with an endpoint left
\* and the ceiling not reached the loop goes on to fetch it.
C7_EndpointFailureNotFatal ==
    /\ [](\A t \in Threads :
            pc[t] = "set_end" =>
                \/ LimitReached(load[t].satellite_count)
                \/ \A u \in 1..UrlsPerSet :
                      \E i \in DOMAIN fetched[t] :
                          /\ fetched[t][i].set = load[t].source_index
                          /\ fetched[t][i].url = u)
    /\ [][\A t \in Threads :
            /\ JustFetched(t) =>
                  /\ IsPrefix(load[t].all_satellites, load'[t].all_satellites)
                  /\ response'[t].raised =>
                        load'[t] = [load[t] EXCEPT !.url_index = @ + 1]
            /\ ( /\ pc[t] = "urls"
                 /\ pc'[t] # "urls"
                 /\ load[t].url_index <= UrlsPerSet
                 /\ ~LimitReached(load[t].satellite_count) )
               => pc'[t] = "fetch" /\ load'[t] = load[t]
         ]_vars

\* C7 witness: the first endpoint of a source set raised and the second is
\* being fetched.
C7_Witness ==
    \E t \in Threads :
        /\ pc[t] = "fetch"
        /\ response[t].raised
        /\ load[t].url_index = 2

\* history: the valid records of the endpoints f[i..], in the order served
RECURSIVE ServedFrom(_, _)
ServedFrom(f, i) ==
    IF i > Len(f) THEN <<>> ELSE f[i].records \o ServedFrom(f, i + 1)

\* C8: the ids of the accumulating result are distinct, every entry is the
\* one built from the first valid record with its id among all records
\* served so far, and what is published is that result.
C8_FirstSeenWins ==
    \A t \in Threads :
        LET all == load[t].all_satellites
            v   == ServedFrom(fetched[t], 1)
        IN  /\ \A i, j \in DOMAIN all : i # j => all[i].norad_id # all[j].norad_id
            /\ pc[t] \in {"urls", "return"} => \A i \in DOMAIN all :
                  \E k \in DOMAIN v :
                      /\ v[k].line1.norad = all[i].norad_id
                      /\ \A j \in 1..(k - 1) : v[j].line1.norad # all[i].norad_id
                      /\ all[i].name = v[k].name
                      /\ all[i].tle_line1 = v[k].line1
                      /\ all[i].tle_line2 = v[k].line2
                      /\ all[i].category =
                             CategorizeSatellite(v[k].name, v[k].line1.norad)
            /\ (pc[t] \in {"stamp", "clear", "append", "return"} /\ all # <<>>)
                  => satellites = all

\* C8 witness: an ingestion is through in which an id was served twice, with
\* different names, and the catalog has it under the first name.
C8_Witness ==
    \E t \in Threads :
        LET v == ServedFrom(fetched[t], 1) IN
        /\ pc[t] = "return"
        /\ \E k1, k2 \in DOMAIN v :
              /\ k1 < k2
              /\ v[k1].line1.norad = v[k2].line1.norad
              /\ v[k1].name # v[k2].name
              /\ \E i \in DOMAIN satellites :
                    /\ satellites[i].norad_id = v[k1].line1.norad
                    /\ satellites[i].name = v[k1].name

\* the two stored lines of an entry pass the check of the format
StoredLinesValid(e) ==
    /\ e.tle_line1.mark = "1 " /\ e.tle_line1.len = 69
    /\ e.tle_line2.mark = "2 " /\ e.tle_line2.len = 69

\* C9: every entry of the catalog and of an accumulating result has a line 1
\* that starts with "1 " and a line 2 that starts with "2 ", both of 69
\* characters; and after a fetch every valid record of the body is in the
\* result, whatever stood before it in the body, unless the ceiling is
\* reached.
C9_StoredLinesValid ==
    /\ [](/\ \A i \in DOMAIN satellites : StoredLinesValid(satellites[i])
          /\ \A t \in Threads : \A i \in DOMAIN load[t].all_satellites :
                 StoredLinesValid(load[t].all_satellites[i]))
    /\ [][\A t \in Threads :
            JustFetched(t) =>
                \/ LimitReached(load'[t].satellite_count)
                \/ LET v == ValidRecords(response'[t]) IN
                   \A k \in DOMAIN v :
                       v[k].line1.norad \in Keys(load'[t].all_satellites)
         ]_vars

\* C9 witness: a body whose first record fails the check and whose second
\* record is valid has been parsed, and the second record is in the result.
C9_Witness ==
    \E t \in Threads :
        LET x == Triplets(response[t].lines) IN
        /\ pc[t] = "urls"
        /\ Len(x) >= 2
        /\ ~(x[1].line1.mark = "1 " /\ x[1].line1.len = 69)
        /\ IsValidTriplet(x[2])
        /\ \E i \in DOMAIN load[t].all_satellites :
              /\ load[t].all_satellites[i].tle_line1 = x[2].line1
              /\ load[t].all_satellites[i].tle_line2 = x[2].line2

\* C10: the catalog and every accumulating result hold at most
\* SatelliteLimit records, the count of the code is the size of the result,
\* and from a state where the count has reached the ceiling no step of the
\* ingestion fetches an endpoint or adds a record.
C10_Ceiling ==
    /\ [](/\ Len(satellites) <= SatelliteLimit
          /\ \A t \in Threads :
                /\ load[t].satellite_count = Len(load[t].all_satellites)
                /\ load[t].satellite_count <= SatelliteLimit)
    /\ [][\A t \in Threads :
            LimitReached(load[t].satellite_count) =>
                /\ Len(fetched'[t]) <= Len(fetched[t])
                /\ Len(load'[t].all_satellites) <= Len(load[t].all_satellites)
         ]_vars

\* C10 witness: the count stands at the ceiling, the body just parsed holds
\* a valid record with an id the result does not have, and an endpoint of
\* the source set is left.
C10_Witness ==
    \E t \in Threads :
        /\ pc[t] = "urls"
        /\ load[t].satellite_count = SatelliteLimit
        /\ load[t].url_index <= UrlsPerSet
        /\ \E k \in DOMAIN ValidRecords(response[t]) :
              ValidRecords(response[t])[k].line1.norad
                  \notin Keys(load[t].all_satellites)

\* C11: a call of get_satellite_positions goes into load_tle_data exactly
\* when there is no catalog yet or more than update_interval seconds have
\* passed since the catalog was built, and goes straight to its loop, with
\* the catalog as it is, otherwise.
C11_StalenessGate ==
    [][\A t \in Threads :
          (pc[t] = "idle" /\ caller'[t] = "positions") =>
              /\ pc'[t] = "load" <=>
                     \/ satellites = <<>>
                     \/ built_at # None /\ now - built_at > update_interval
              /\ pc'[t] # "load" => pc'[t] = "positions"
              /\ UNCHANGED <<satellites, categories, last_update, fetched>>
      ]_vars

\* what an ingestion that fetched f leaves as the catalog: the built-in
\* record when no endpoint served a valid record, and otherwise records
\* that the endpoints served
IsResultOf(sats, f) ==
    LET v == ServedFrom(f, 1) IN
    IF v = <<>>
    THEN sats = FallbackSatellites
    ELSE /\ sats # <<>>
         /\ \A i \in DOMAIN sats : \E k \in DOMAIN v :
                /\ sats[i].norad_id = v[k].line1.norad
                /\ sats[i].tle_line1 = v[k].line1
                /\ sats[i].tle_line2 = v[k].line2

\* C12: refresh_tle_data runs load_tle_data whatever last_update says, from
\* the first endpoint of the first source set on, and when it has returned
\* the catalog is what that ingestion built.
C12_RefreshReplacesCatalog ==
    \A t \in Threads :
        /\ (caller[t] = "refresh" /\ pc[t] # "respond") => InLoad(t)
        /\ (caller[t] = "refresh" /\ pc[t] = "respond") =>
              /\ fetched[t] # <<>>
              /\ fetched[t][1].set = 1 /\ fetched[t][1].url = 1
              /\ IsResultOf(satellites, fetched[t])

\* the letters, in capitals and in small letters
Letters ==
    { <<"A","a">>, <<"B","b">>, <<"C","c">>, <<"D","d">>, <<"E","e">>, <<"F","f">>, <<"G","g">>,
      <<"H","h">>, <<"I","i">>, <<"J","j">>, <<"K","k">>, <<"L","l">>, <<"M","m">>, <<"N","n">>,
      <<"O","o">>, <<"P","p">>, <<"Q","q">>, <<"R","r">>, <<"S","s">>, <<"T","t">>, <<"U","u">>,
      <<"V","v">>, <<"W","w">>, <<"X","x">>, <<"Y","y">>, <<"Z","z">> }

\* a name with its capitals turned into small letters
CaseFold(s) ==
    [i \in 1..Len(s) |->
        IF \E p \in Letters : p[1] = s[i]
        THEN (CHOOSE p \in Letters : p[1] = s[i])[2]
        ELSE s[i]]

\* kw stands somewhere in s
Contains(kw, s) ==
    \E i \in 0..(Len(s) - Len(kw)) : \A j \in 1..Len(kw) : s[i + j] = kw[j]

\* the rules of _categorize_satellite as a table, in the order of the code:
\* a rule matches on its catalog id, on one of its keywords, or on both
\* keywords of one of its pairs
CategoryRules ==
    << [category |-> "ISS", id |-> 25544,
        keywords |->
          { <<"i","s","s">> },
        pairs |-> {}],
       [category |-> "GPS", id |-> NoInt,
        keywords |->
          { <<"g","p","s">>,
            <<"n","a","v","s","t","a","r">> },
        pairs |-> {}],
       [category |-> "GLONASS", id |-> NoInt,
        keywords |->
          { <<"g","l","o","n","a","s","s">> },
        pairs |-> {}],
       [category |-> "Galileo", id |-> NoInt,
        keywords |->
          { <<"g","a","l","i","l","e","o">> },
        pairs |-> {}],
       [category |-> "BeiDou", id |-> NoInt,
        keywords |->
          { <<"b","e","i","d","o","u">>,
            <<"c","o","m","p","a","s","s">> },
        pairs |-> {}],
       [category |-> "Starlink", id |-> NoInt,
        keywords |->
          { <<"s","t","a","r","l","i","n","k">> },
        pairs |-> {}],
       [category |-> "OneWeb", id |-> NoInt,
        keywords |->
          { <<"o","n","e","w","e","b">> },
        pairs |-> {}],
       [category |-> "Iridium", id |-> NoInt,
        keywords |->
          { <<"i","r","i","d","i","u","m">> },
        pairs |-> {}],
       [category |-> "Weather", id |-> NoInt,
        keywords |->
          { <<"n","o","a","a">>,
            <<"g","o","e","s">>,
            <<"m","e","t","e","o","s","a","t">>,
            <<"w","e","a","t","h","e","r">>,
            <<"m","e","t","o","p">>,
            <<"h","i","m","a","w","a","r","i">> },
        pairs |-> {}],
       [category |-> "Earth_Observation", id |-> NoInt,
        keywords |->
          { <<"l","a","n","d","s","a","t">>,
            <<"s","e","n","t","i","n","e","l">>,
            <<"t","e","r","r","a">>,
            <<"a","q","u","a">>,
            <<"m","o","d","i","s">>,
            <<"w","o","r","l","d","v","i","e","w">> },
        pairs |-> {}],
       [category |-> "Space_Telescopes", id |-> NoInt,
        keywords |->
          { <<"h","u","b","b","l","e">>,
            <<"k","e","p","l","e","r">>,
            <<"t","e","s","s">>,
            <<"c","h","a","n","d","r","a">>,
            <<"s","p","i","t","z","e","r">>,
            <<"j","w","s","t">>,
            <<"t","e","l","e","s","c","o","p","e">>,
            <<"o","b","s","e","r","v","a","t","o","r","y">> },
        pairs |-> {}],
       [category |-> "Scientific", id |-> NoInt,
        keywords |->
          { <<"s","c","i","e","n","c","e">>,
            <<"r","e","s","e","a","r","c","h">>,
            <<"e","x","p","l","o","r","e","r">>,
            <<"m","i","s","s","i","o","n">>,
            <<"e","x","p","e","r","i","m","e","n","t">> },
        pairs |-> {}],
       [category |-> "CubeSats", id |-> NoInt,
        keywords |->
          { <<"c","u","b","e","s","a","t">>,
            <<"c","u","b","e">>,
            <<"p","i","c","o","s","a","t","e","l","l","i","t","e">>,
            <<"n","a","n","o","s","a","t">>,
            <<"m","i","c","r","o","s","a","t">> },
        pairs |-> {}],
       [category |-> "Amateur_Radio", id |-> NoInt,
        keywords |->
          { <<"a","m","a","t","e","u","r">>,
            <<"h","a","m">> },
        pairs |-> {<<<<"r","a","d","i","o">>, <<"s","a","t">>>>}],
       [category |-> "Technology_Demo", id |-> NoInt,
        keywords |->
          { <<"d","e","m","o">>,
            <<"t","e","s","t">>,
            <<"t","e","c","h","n","o","l","o","g","y">>,
            <<"e","x","p","e","r","i","m","e","n","t","a","l">> },
        pairs |-> {}],
       [category |-> "Military", id |-> NoInt,
        keywords |->
          { <<"u","s","a">>,
            <<"n","r","o">>,
            <<"d","s","c","s">>,
            <<"m","i","l","s","t","a","r">>,
            <<"s","b","i","r","s">>,
            <<"l","a","c","r","o","s","s","e">> },
        pairs |-> {}],
       [category |-> "Rocket_Bodies", id |-> NoInt,
        keywords |->
          { <<"r","o","c","k","e","t">>,
            <<"r","/","b">>,
            <<"d","e","b","r","i","s">>,
            <<"s","t","a","g","e">> },
        pairs |-> {}],
       [category |-> "Communication", id |-> NoInt,
        keywords |->
          { <<"i","n","t","e","l","s","a","t">>,
            <<"e","u","t","e","l","s","a","t">>,
            <<"s","e","s">>,
            <<"c","o","m","m","u","n","i","c","a","t","i","o","n">>,
            <<"t","e","l","e","c","o","m">>,
            <<"b","r","o","a","d","c","a","s","t">> },
        pairs |-> {}],
       [category |-> "Geostationary", id |-> NoInt,
        keywords |->
          { <<"g","e","o">>,
            <<"g","e","o","s","t","a","t","i","o","n","a","r","y">> },
        pairs |-> {}] >>

\* rule k matches the name s (in small letters) and the catalog id
RuleMatches(k, s, norad_id) ==
    \/ CategoryRules[k].id # NoInt /\ CategoryRules[k].id = norad_id
    \/ \E kw \in CategoryRules[k].keywords : Contains(kw, s)
    \/ \E p \in CategoryRules[k].pairs : Contains(p[1], s) /\ Contains(p[2], s)

\* the first of the rules K that matches, 0 when none does
FirstMatch(K, s, norad_id) ==
    LET M == {k \in K : RuleMatches(k, s, norad_id)} IN
    IF M = {} THEN 0 ELSE CHOOSE k \in M : \A j \in M : k <= j

IssRule == {1}
NavigationRules == 2..5
ConstellationRules == 6..8

\* C13: the category of catalog id 25544 is ISS whatever the name; when the
\* ISS rule does not match and a navigation rule does, the category is the
\* one of the first navigation rule that matches, whatever later rule
\* matches too; when none of these match and a constellation rule does, the
\* category is the one of the first constellation rule that matches; and
\* capitals in the name count as small letters.
C13_FirstMatchWins ==
    \A t \in Threads :
        pc[t] = "categorized" =>
            LET s   == CaseFold(args[t].name)
                id  == args[t].norad_id
                iss == FirstMatch(IssRule, s, id)
                nav == FirstMatch(NavigationRules, s, id)
                con == FirstMatch(ConstellationRules, s, id)
                c   == result[t].category
            IN  /\ id = 25544 => c = "ISS"
                /\ iss # 0 => c = "ISS"
                /\ (iss = 0 /\ nav # 0) => c = CategoryRules[nav].category
                /\ (iss = 0 /\ nav = 0 /\ con # 0) =>
                       c = CategoryRules[con].category

\* C13 witness: a name with capitals that matches a navigation keyword and a
\* communication keyword, under an id other than 25544, is categorized as
\* the navigation system.
C13_Witness ==
    \E t \in Threads :
        /\ pc[t] = "categorized"
        /\ args[t].norad_id # 25544
        /\ args[t].name # CaseFold(args[t].name)
        /\ Contains(<<"g","l","o","n","a","s","s">>, CaseFold(args[t].name))
        /\ Contains(<<"t","e","l","e","c","o","m">>, CaseFold(args[t].name))
        /\ result[t].category = "GLONASS"

\* C14: the three sample objects are categorized as ISS, Starlink and Other;
\* a name and id that no rule matches are categorized as Other; and every
\* category returned is a key of the taxonomy.
C14_SamplesAndOther ==
    \A t \in Threads :
        pc[t] = "categorized" =>
            LET name == args[t].name
                id   == args[t].norad_id
                c    == result[t].category
            IN  /\ (name = ISS_NAME /\ id = 25544) => c = "ISS"
                /\ (name = STARLINK_NAME /\ id = 44713) => c = "Starlink"
                /\ (name = UNKNOWN_NAME /\ id = 99999) => c = "Other"
                /\ FirstMatch(DOMAIN CategoryRules, CaseFold(name), id) = 0
                       => c = "Other"
                /\ c \in CategoryKeys

\* C14 witness: "UNKNOWNSAT-1" under 99999 is categorized as Other.
C14_Witness ==
    \E t \in Threads :
        /\ pc[t] = "categorized"
        /\ args[t].name = UNKNOWN_NAME
        /\ args[t].norad_id = 99999
        /\ result[t].category = "Other"

\* the records of sats from place i on that are neither without a position
\* nor without a mean motion, in the order of the catalog
RECURSIVE Computable(_, _)
Computable(sats, i) ==
    IF i > Len(sats) THEN <<>>
    ELSE IF /\ sats[i].tle_line1.propagates /\ sats[i].tle_line2.propagates
            /\ sats[i].tle_line2.mean_motion # NoFloat
         THEN <<sats[i].norad_id>> \o Computable(sats, i + 1)
         ELSE Computable(sats, i + 1)

\* C15: get_satellite_positions returns a list and raises nothing; the list
\* holds, once each and in the order of the catalog, the records whose
\* propagation succeeds and whose mean motion is a number, and no other.
C15_FailingRecordsOmitted ==
    \A t \in Threads :
        (caller[t] = "positions" /\ pc[t] = "respond") =>
            /\ result[t].op = "positions"
            /\ ~result[t].raised
            /\ [i \in DOMAIN result[t].satellites |->
                    result[t].satellites[i].norad_id] = Computable(satellites, 1)

\* C15 witness: the catalog holds a record that fails and, after it, one
\* that does not, and the list returned holds the second one only.
C15_Witness ==
    \E t \in Threads :
        /\ caller[t] = "positions" /\ pc[t] = "respond"
        /\ Len(satellites) >= 2
        /\ satellites[1].tle_line2.mean_motion = NoFloat
              \/ ~satellites[1].tle_line2.propagates
        /\ Len(result[t].satellites) = Len(satellites) - 1
        /\ result[t].satellites[1].norad_id = satellites[2].norad_id

\* C16: get_satellite_details returns None exactly when the id is not in the
\* catalog; for an id that is in the catalog it returns the details of that
\* id, also when something in their computation fails.
C16_NotFoundIffAbsent ==
    \A t \in Threads :
        (caller[t] = "details" /\ pc[t] = "respond") =>
            /\ ~result[t].raised
            /\ result[t].value = <<>> <=> args[t].norad_id \notin Keys(satellites)
            /\ result[t].value # <<>> =>
                   result[t].value[1].norad_id = args[t].norad_id

\* a pass is open before event k: a rise stands before k with no set
\* between it and k
OpenBefore(ev, k) ==
    \E i \in 1..(k - 1) :
        /\ ev[i].kind = Rise
        /\ \A j \in (i + 1)..(k - 1) : ev[j].kind # SetEvent

\* the first event at which the propagation capability fails while a pass
\* is open, or the place after the last event
StopsAt(ev) ==
    LET F == {k \in DOMAIN ev : /\ ev[k].altaz_raises
                                /\ ev[k].kind \in {Culmination, SetEvent}
                                /\ OpenBefore(ev, k)}
    IN  IF F = {} THEN Len(ev) + 1 ELSE CHOOSE k \in F : \A j \in F : k <= j

\* the sets that close a pass before the assembly ends
ClosingSets(ev) ==
    {k \in 1..(StopsAt(ev) - 1) : ev[k].kind = SetEvent /\ OpenBefore(ev, k)}

\* the i-th of a set of numbers
Ith(S, i) == CHOOSE x \in S : Cardinality({y \in S : y <= x}) = i

\* thread t has the answer of get_next_passes for an id of the catalog
PassesReturned(t) ==
    /\ caller[t] = "passes"
    /\ pc[t] = "respond"
    /\ args[t].norad_id \in Keys(satellites)

\* C17: when find_events reports no event, get_next_passes returns the empty
\* list; when the events hold a rise, a culmination and a set that follow
\* each other in time, the list holds the pass of that set (if it is among
\* the first three), and its duration is set_time minus rise_time and is
\* greater than 0.
C17_PassDuration ==
    \A t \in Threads :
        PassesReturned(t) =>
            LET ev == args[t].observed.events
                ps == result[t].passes
            IN  /\ ~result[t].raised
                /\ (ev = <<>> /\ ~args[t].observed.raised) => ps = <<>>
                /\ \A i \in 1..(Len(ev) - 2) :
                      ( /\ ev[i].kind = Rise
                        /\ ev[i + 1].kind = Culmination
                        /\ ev[i + 2].kind = SetEvent
                        /\ ev[i].time < ev[i + 1].time
                        /\ ev[i + 1].time < ev[i + 2].time
                        /\ i + 2 < StopsAt(ev)
                        /\ Cardinality({k \in ClosingSets(ev) : k <= i + 2})
                               <= PassLimit )
                      => \E n \in DOMAIN ps :
                            /\ ps[n].set_azimuth = ev[i + 2].time
                            /\ ps[n].culmination_azimuth = ev[i + 1].time
                            /\ ps[n].duration_minutes
                                   = ps[n].set_time - ps[n].rise_time
                            /\ ps[n].duration_minutes > 0

\* C18: get_next_passes returns at most three passes: the first three of the
\* passes that the sets of the event sequence close, in the order of those
\* sets, and all of them when there are fewer than three.
C18_FirstThreePasses ==
    \A t \in Threads :
        (PassesReturned(t) /\ ~args[t].observed.raised) =>
            LET ev == args[t].observed.events
                ps == result[t].passes
                C  == ClosingSets(ev)
            IN  /\ Len(ps) <= 3
                /\ Len(ps) = IF Cardinality(C) < 3 THEN Cardinality(C) ELSE 3
                /\ \A n \in DOMAIN ps : ps[n].set_azimuth = ev[Ith(C, n)].time

\* C18 witness: the events close four passes and three are returned.
C18_Witness ==
    \E t \in Threads :
        /\ PassesReturned(t)
        /\ ~args[t].observed.raised
        /\ Cardinality(ClosingSets(args[t].observed.events)) = 4
        /\ Len(result[t].passes) = 3

\* C19: get_next_passes raises for no event sequence; every pass returned
\* goes from a rise to the first set after it, so that a culmination or a
\* set with no open pass before it and a rise with no set after it give no
\* pass; and when the propagation capability fails during the assembly, or
\* find_events itself fails, the passes closed before are returned.
C19_OrphansAndFailures ==
    \A t \in Threads :
        PassesReturned(t) =>
            LET ev == args[t].observed.events
                ps == result[t].passes
                C  == ClosingSets(ev)
            IN  /\ ~result[t].raised
                /\ args[t].observed.raised => ps = <<>>
                /\ \A n \in DOMAIN ps :
                      \E k \in C : \E i \in 1..(k - 1) :
                         /\ ev[i].kind = Rise
                         /\ \A j \in (i + 1)..(k - 1) :
                                ev[j].kind \notin {Rise, SetEvent}
                         /\ ps[n].set_azimuth = ev[k].time
                         /\ ps[n].rise_time = (ev[i].time + 2) \div 4
                         /\ ps[n].set_time = (ev[k].time + 2) \div 4
                /\ \A k \in C :
                      Cardinality({j \in C : j <= k}) <= 3 =>
                          \E n \in DOMAIN ps : ps[n].set_azimuth = ev[k].time

\* C19 witness: a set with no rise before it, then a pass that is closed,
\* then a rise and a culmination at which the capability fails: the one
\* pass is returned.
C19_Witness ==
    \E t \in Threads :
        LET ev == args[t].observed.events IN
        /\ PassesReturned(t)
        /\ Len(ev) >= 5
        /\ ev[1].kind = SetEvent
        /\ ev[2].kind = Rise
        /\ ev[3].kind = SetEvent
        /\ StopsAt(ev) = Len(ev)
        /\ ev[Len(ev)].kind = Culmination
        /\ Len(result[t].passes) = 1

\* C20: for an id of the catalog get_orbital_path returns at most 100 points:
\* one for every sample whose propagation succeeds, in the order of the
\* samples, where sample k of the 100 (k = 0..99) is taken at k/99 of the
\* horizon after now, so that the first is taken now and the last at the
\* end of the horizon.
C20_HundredSamplesAcrossHorizon ==
    \A t \in Threads :
        (caller[t] = "orbit" /\ pc[t] = "respond"
            /\ args[t].norad_id \in Keys(satellites)) =>
            LET ps == result[t].orbit_points
                r  == Get(satellites, args[t].norad_id)
                ok == IF r.tle_line1.propagates /\ r.tle_line2.propagates
                      THEN (1..100) \ args[t].failing ELSE {}
            IN  /\ ~result[t].raised
                /\ Len(ps) <= 100
                /\ Len(ps) = Cardinality(ok)
                /\ \A n \in DOMAIN ps :
                      99 * ps[n].at = (Ith(ok, n) - 1) * 3600 * args[t].hours

\* the sum of the counts of a summary, over the keys in the dict's order
RECURSIVE SumCounts(_, _)
SumCounts(summary, i) ==
    IF i > Len(CategoryOrder) THEN 0
    ELSE summary[CategoryOrder[i]].count + SumCounts(summary, i + 1)

\* thread t takes the step of get_satellite_categories
SummaryTaken(t) ==
    /\ pc[t] = "idle"
    /\ pc'[t] = "respond"
    /\ caller'[t] = "categories"

\* C21: get_satellite_categories returns one entry for every key of the
\* taxonomy, each with its name and colour, its count the length of its
\* list and its list the membership list of the category, and the counts
\* add up to the number of records of the catalog at the time of the call.
C21_SummaryIsProjection ==
    [][\A t \in Threads :
          SummaryTaken(t) =>
              LET summary == result'[t].categories IN
              /\ DOMAIN summary = CategoryKeys
              /\ \A c \in CategoryKeys :
                    /\ summary[c].count = Len(summary[c].satellites)
                    /\ summary[c].satellites = categories[c]
                    /\ summary[c].name = CategoryDisplay[c].name
                    /\ summary[c].color = CategoryDisplay[c].color
              /\ SumCounts(summary, 1) = Len(satellites)]_vars

\* the catalog in place was built no longer than update_interval ago
SnapshotFresh == built_at # None /\ now - built_at <= update_interval

\* C22: a call of get_satellite_positions within the lifetime of the
\* catalog in place starts no ingestion and changes neither the catalog,
\* the category lists nor last_update, and what it returns is taken from
\* the catalog alone, so that a second call returns the same list.
C22_ListPositionsIdempotent ==
    [][\A t \in Threads :
          /\ (pc[t] = "idle" /\ caller'[t] = "positions" /\ SnapshotFresh) =>
                /\ pc'[t] = "positions"
                /\ UNCHANGED <<satellites, categories, last_update, built_at>>
          /\ pc[t] = "positions" =>
                /\ pc'[t] = "respond"
                /\ result'[t].satellites = PositionsOf(satellites)
                /\ UNCHANGED <<satellites, categories, last_update, built_at>>
      ]_vars

\* what the routes ask of the catalog without loading it
QueryCallers == {"details", "orbit", "passes", "categories"}

\* C23: no step of get_satellite_details, get_orbital_path, get_next_passes
\* or get_satellite_categories, from the call to the return and for ids of
\* the catalog and others, changes the catalog, a field of a record, the
\* category lists or last_update.
C23_QueriesLeaveCatalog ==
    [][\A t \in Threads :
          (caller[t] \in QueryCallers \/ caller'[t] \in QueryCallers) =>
              UNCHANGED <<satellites, categories, last_update>>]_vars

\* C23 witness: get_satellite_details has returned the details of a record
\* of a catalog of two records.
C23_Witness ==
    \E t \in Threads :
        /\ caller[t] = "details"
        /\ pc[t] = "respond"
        /\ result[t].value # <<>>
        /\ Len(satellites) >= 2

\* thread t holds the answer of the route get_satellites
EnvelopeSent(t) ==
    /\ caller[t] = "positions"
    /\ pc[t] = "respond"
    /\ result[t].op = "api_satellites"

\* C24: the route get_satellites answers with status 200 in every case; when
\* the ingestion it started has failed, so that no catalog is in place, the
\* answer is success false with an error and an empty list, and otherwise
\* it is success true with the list of positions.
C24_SatellitesEnvelope ==
    \A t \in Threads :
        EnvelopeSent(t) =>
            /\ result[t].status = 200
            /\ IF fallback_failed[t] /\ satellites = <<>>
               THEN /\ ~result[t].success
                    /\ result[t].error
                    /\ result[t].satellites = <<>>
               ELSE /\ result[t].success
                    /\ ~result[t].error

\* thread t holds the details of a record
DetailsReturned(t) ==
    /\ caller[t] = "details"
    /\ pc[t] = "respond"
    /\ result[t].value # <<>>

\* C25: the orbit type of the details follows from the altitude: under
\* 2000 km it is the low orbit, from 2000 km up to 35000 km the medium
\* orbit, and from 35000 km on the geostationary orbit; it is always one of
\* the three.
C25_OrbitClassByAltitude ==
    \A t \in Threads :
        DetailsReturned(t) =>
            LET altitude == result[t].value[1].altitude
                label    == result[t].value[1].orbit_type
            IN  /\ label \in {"LEO (Low Earth Orbit)",
                              "MEO (Medium Earth Orbit)",
                              "GEO (Geostationary Orbit)"}
                /\ altitude # NaN =>
                      /\ altitude < 2000000 <=> label = "LEO (Low Earth Orbit)"
                      /\ (2000000 <= altitude /\ altitude < 35000000)
                            <=> label = "MEO (Medium Earth Orbit)"
                      /\ altitude >= 35000000
                            <=> label = "GEO (Geostationary Orbit)"

\* C25 witness: the details of a record at 2000 km exactly, with the medium
\* orbit as its orbit type.
C25_Witness ==
    \E t \in Threads :
        /\ DetailsReturned(t)
        /\ result[t].value[1].altitude = 2000000
        /\ result[t].value[1].orbit_type = "MEO (Medium Earth Orbit)"

\* the number that two digits write, and NoInt for other characters
TwoDigits(yy) ==
    IF \E a \in 0..9, b \in 0..9 : yy = <<Digits[a + 1], Digits[b + 1]>>
    THEN LET p == CHOOSE p \in (0..9) \X (0..9) :
                      yy = <<Digits[p[1] + 1], Digits[p[2] + 1]>>
         IN  10 * p[1] + p[2]
    ELSE NoInt

\* the launch date that the claim gives for an epoch whose year is two
\* digits and whose day lies within the year
PivotDate(epoch) ==
    [year |-> IF TwoDigits(epoch.yy) <= 56 THEN 2000 + TwoDigits(epoch.yy)
              ELSE 1900 + TwoDigits(epoch.yy),
     yday |-> (epoch.day \div 2)]

\* the epoch cannot be read: a letter or a leading blank in the year, or a
\* day that is no number
Unparsable(epoch) ==
    \/ epoch.yy[1] \in {"X", " "}
    \/ epoch.yy[2] = "X"
    \/ epoch.day \in {NoFloat, NaN}

\* the launch date that thread t returns for the one record of the catalog
LaunchDateReturned(t) ==
    IF caller[t] = "details" THEN result[t].value[1].launch_date
    ELSE result[t].satellites[1].launch_date

\* C26: for a year of 00 to 56 the launch date lies in 2000+yy and for a
\* year of 57 to 99 in 1900+yy, on the day of the epoch;
\* get_satellite_positions and get_satellite_details give the same date for
\* the same epoch; and an epoch that cannot be read gives "Unknown" in a
\* record that is returned all the same.
C26_LaunchDatePivot ==
    \A t \in Threads :
        ( /\ pc[t] = "respond"
          /\ caller[t] \in {"details", "positions"}
          /\ caller[t] = "details" => args[t].norad_id = FallbackNoradId ) =>
            LET epoch == satellites[1].tle_line1.epoch IN
            /\ caller[t] = "details" => result[t].value # <<>>
            /\ caller[t] = "positions" => Len(result[t].satellites) = 1
            /\ (TwoDigits(epoch.yy) # NoInt /\ epoch.day \in 2..731) =>
                   LaunchDateReturned(t) = PivotDate(epoch)
            /\ Unparsable(epoch) => LaunchDateReturned(t) = Unknown
            /\ caller[t] = "details" =>
                   LaunchDateReturned(t) = PositionLaunchDate(epoch)
            /\ caller[t] = "positions" =>
                   LaunchDateReturned(t) = ExtractLaunchDate(epoch)

\* C26 witness: the details of a record with the year 57 carry a launch date
\* in 1957.
C26_Witness ==
    \E t \in Threads :
        /\ DetailsReturned(t)
        /\ satellites[1].tle_line1.epoch.yy = <<"5", "7">>
        /\ result[t].value[1].launch_date.year = 1957

\* C27: when an ingestion that replaced the catalog has returned, whether it
\* built the catalog from source data or from the built-in record,
\* last_update is the time at which that catalog was built.
C27_SnapshotCarriesBuildTime ==
    \A t \in Threads :
        ( /\ pc[t] = "respond"
          /\ load_result[t] = "returned"
          /\ ~fallback_failed[t] ) =>
            /\ last_update # None
            /\ last_update = built_at

\* C28: get_satellite_details, get_orbital_path and get_next_passes return
\* a result and raise nothing, also when an ingestion replaces the catalog
\* between the membership test and the lookup of the record.
C28_QueriesSurviveRefresh ==
    \A t \in Threads :
        (pc[t] = "respond" /\ caller[t] \in {"details", "orbit", "passes"}) =>
            ~result[t].raised

\* the ingestion of thread t has returned and none of the endpoints it
\* fetched served a valid record
ReturnedWithoutRecords(t) ==
    /\ load_result[t] = "returned"
    /\ fetched[t] # <<>>
    /\ \A i \in DOMAIN fetched[t] : fetched[t][i].records = <<>>

\* C29: when an ingestion in which no endpoint served a valid record has
\* returned, the catalog is the one built-in record, 25544 in the category
\* ISS, whatever the catalog held before, the category lists hold 25544
\* under ISS and nothing else, and the ingestion returned without an error.
C29_FallbackCatalogExact ==
    \A t \in Threads :
        ReturnedWithoutRecords(t) =>
            /\ Len(satellites) = 1
            /\ satellites[1].norad_id = 25544
            /\ satellites[1].category = "ISS"
            /\ \A c \in CategoryKeys :
                  categories[c] = IF c = "ISS" THEN <<25544>> ELSE <<>>

\* the valid records that the endpoints of source set k served, in the
\* order of the fetches
RECURSIVE ServedBySet(_, _, _)
ServedBySet(f, k, i) ==
    IF i > Len(f) THEN <<>>
    ELSE (IF f[i].set = k THEN f[i].records ELSE <<>>)
             \o ServedBySet(f, k, i + 1)

\* the ids of the records v from place i on, each at its first place and
\* without the ids of seen
RECURSIVE FirstIds(_, _, _)
FirstIds(v, i, seen) ==
    IF i > Len(v) THEN <<>>
    ELSE IF v[i].line1.norad \in seen THEN FirstIds(v, i + 1, seen)
    ELSE <<v[i].line1.norad>>
             \o FirstIds(v, i + 1, seen \cup {v[i].line1.norad})

\* the first n of a sequence, and all of it when it is shorter
CutAt(q, n) == IF Len(q) <= n THEN q ELSE SubSeq(q, 1, n)

\* the source sets of which an endpoint served a valid record
ServingSets(f) == {f[i].set : i \in {j \in DOMAIN f : f[j].records # <<>>}}

\* C30: when load_tle_data turns to a source set after the first one its
\* accumulated result is empty; the valid records that it fetched all come
\* from one source set; and the result it publishes holds the ids of the
\* valid records of that set, each once and in the order served, up to the
\* ceiling.
C30_SingleSourceGroup ==
    \A t \in Threads :
        LET all == load[t].all_satellites
            f   == fetched[t]
        IN  /\ (pc[t] = "sets" /\ load[t].source_index > 1) => all = <<>>
            /\ Cardinality(ServingSets(f)) <= 1
            /\ (pc[t] \in {"publish", "stamp", "clear", "append"}
                    /\ all # <<>>) =>
                  \E k \in ServingSets(f) :
                      [i \in DOMAIN all |-> all[i].norad_id]
                          = CutAt(FirstIds(ServedBySet(f, k, 1), 1, {}),
                                  SatelliteLimit)

\* C30 witness: the first source set served no valid record, the second
\* served some, and load_tle_data publishes them.
C30_Witness ==
    \E t \in Threads :
        /\ pc[t] = "publish"
        /\ load[t].all_satellites # <<>>
        /\ ServingSets(fetched[t]) = {2}
        /\ \E i \in DOMAIN fetched[t] : fetched[t][i].set = 1

\* the last rise before event k
LastRiseBefore(ev, k) ==
    CHOOSE i \in 1..(k - 1) :
        /\ ev[i].kind = Rise
        /\ \A j \in (i + 1)..(k - 1) : ev[j].kind # Rise

\* C31: every pass that get_next_passes returns belongs to a set of the
\* events and to the last rise before that set: it carries the time of
\* that rise, a rise azimuth that is a number, the time and the azimuth of
\* the set and a duration; it carries a culmination only when a culmination
\* lies between that rise and that set; and of two rises with no set
\* between them the earlier gives nothing to the pass.
C31_PassFromLastRise ==
    \A t \in Threads :
        (PassesReturned(t) /\ ~args[t].observed.raised) =>
            LET ev == args[t].observed.events
                ps == result[t].passes
                C  == ClosingSets(ev)
            IN  \A n \in DOMAIN ps :
                   LET k == Ith(C, n)
                       i == LastRiseBefore(ev, k)
                       p == ps[n]
                   IN  /\ p.rise_time = (ev[i].time + 2) \div 4
                       /\ p.rise_azimuth \notin {None, Absent}
                       /\ p.rise_azimuth = 4 * p.rise_time
                       /\ p.set_time = (ev[k].time + 2) \div 4
                       /\ p.set_azimuth = ev[k].time
                       /\ p.duration_minutes # Absent
                       /\ p.culmination_time # Absent =>
                             \E j \in (i + 1)..(k - 1) :
                                 /\ ev[j].kind = Culmination
                                 /\ p.culmination_azimuth = ev[j].time
                                 /\ p.max_elevation = ev[j].time
                       /\ p.culmination_time = Absent =>
                             /\ p.culmination_azimuth = Absent
                             /\ p.max_elevation = Absent

\* C31 witness: a rise, a culmination, a second rise ten minutes later and a
\* set: the pass returned starts at the second rise and has no culmination.
C31_Witness ==
    \E t \in Threads :
        LET ev == args[t].observed.events IN
        /\ PassesReturned(t)
        /\ Len(ev) >= 4
        /\ ev[1].kind = Rise /\ ev[2].kind = Culmination
        /\ ev[3].kind = Rise /\ ev[4].kind = SetEvent
        /\ ev[1].time + 4 < ev[3].time
        /\ Len(result[t].passes) >= 1
        /\ result[t].passes[1].rise_time = (ev[3].time + 2) \div 4
        /\ result[t].passes[1].culmination_time = Absent

\* C32: whenever the catalog is the built-in fallback record, left by an
\* ingestion in which every source set failed, the next call of
\* get_satellite_positions starts an ingestion.
C32_FallbackIsRetried ==
    [][\A t \in Threads :
          ( /\ pc[t] = "idle"
            /\ pc'[t] # "idle"
            /\ caller'[t] = "positions"
            /\ satellites = FallbackSatellites ) =>
              pc'[t] = "load"
      ]_vars

=============================================================================
